---- MODULE Spec2Model ----
(***************************************************************************)
(* A model of the Parquet batch reader (datasource/parquet.rs), of the     *)
(* thread-safe partition wrapper around it, and of the hash-aggregate      *)
(* operator (physical_plan/hash_aggregate.rs).                             *)
(*                                                                         *)
(* Indices are 1-based here where the Rust code is 0-based, except         *)
(* row_group_index, which keeps the value it has in the code (the number   *)
(* of row groups loaded so far).                                           *)
(***************************************************************************)
EXTENDS Integers, Sequences, FiniteSets, TLC

(***************************************************************************)
(* Bounds of the model.                                                    *)
(***************************************************************************)
MaxRowGroups == 3
MaxRows == 2
MaxBatchSize == 2
MaxProj == 2
MaxCalls == 5

VARIABLES
    \* ---- the Parquet file on disk (never changes after Init) ----
    numRows,            \* numRows[g]: number of rows of row group g
    nullRows,           \* the row positions whose nullable cells are null
    \* ---- struct ParquetFile ----
    projection,
    batch_size,
    row_group_index,
    current_row_group,  \* 0 models None, g > 0 models Some(row group g)
    column_readers,     \* per projected column: values decoded so far
    readers_row_group,  \* the row group whose chunks column_readers read
    \* ---- the caller of ParquetFile::next ----
    calls,              \* number of calls of next made so far
    result,             \* the value returned by the last call of next
    delivered,          \* the batches returned before the first None
    sawNone,            \* a call of next has returned Ok(None)
    \* ---- a call of ParquetFile::open ----
    file_status,        \* whether the file can be opened and parsed
    file_schema,        \* the Arrow schema derived from the file's metadata
    lib_fault,          \* the get_row_group or get_column_reader that fails
    open_projection,    \* the argument `projection`: Option<Vec<usize>>
    opened,             \* the value returned by open, once it has been called
    \* ---- a call of convert_int96_timestamp ----
    int96,              \* the argument: three 32-bit words, each as 4 bytes
    overflow_checks,    \* the build panics on integer overflow (debug build)
    timestamp,          \* the outcome of the call, once it has been made
    \* ---- the calls of the plan methods of a HashAggregateExec ----
    distribution,       \* the last value of required_child_distribution
    new_plan,           \* the last value of with_new_children
    \* ---- struct ParquetScanPartition, its worker thread and its caller ----
    openFails,          \* the worker's ParquetFile::open returns Err
    wpc,                \* where the worker thread is
    cpc,                \* where the caller of ParquetScanPartition::next is
    request_q,          \* pulls sent on request_tx and not yet received
    response_q,         \* replies sent on response_tx and not yet received
    callerResults,      \* the values returned by ParquetScanPartition::next
    readerResults,      \* the values returned by the worker's table.next()
    \* ---- HashAggregateExec and the stream of one execute(partition) ----
    mode,               \* "Partial" or "Final"
    group_expr,         \* <<>> (HashAggregateStream) or the group expressions
    aggr_expr,
    a_type,             \* the data type of the grouping column of the table
    finished,
    apc,                \* "idle", or "folding": poll_next is driving try_fold
    accumulators,       \* the fold state: the group map / the accumulator set
    \* ---- the consumer and the input stream of the aggregate stream ----
    polls,              \* number of calls of poll_next made so far
    items,              \* the Ready(item) values returned by poll_next
    pendings,           \* number of Poll::Pending returned by the input
    nInput,             \* number of batches the input stream has yielded
    upstream,           \* "open", "ended" (yielded None) or "error"
    seenKeys,           \* the grouping cells of every input row so far
    \* ---- a Partial stage per partition, merged into one Final stage ----
    stage,              \* 0: none; p: Partial on partition p; last: Final
    merged,             \* the Partial output batches not yet read by Final
    ref                 \* per group: count and sum of all input rows

readerVars == <<numRows, nullRows, projection, batch_size, row_group_index,
                current_row_group, column_readers, readers_row_group>>
openVars == <<file_status, file_schema, lib_fault, open_projection, opened>>
convVars == <<int96, overflow_checks, timestamp>>
planVars == <<distribution, new_plan>>
callerVars == <<calls, result, delivered, sawNone, openVars, convVars, planVars>>

scanVars == <<openFails, wpc, cpc, request_q, response_q, callerResults,
              readerResults>>

aggVars == <<mode, group_expr, aggr_expr, a_type, finished, apc, accumulators,
             polls, items, pendings, nInput, upstream, seenKeys>>
pipeVars == <<stage, merged, ref>>

vars == <<readerVars, callerVars, scanVars, aggVars, pipeVars>>

Min(a, b) == IF a < b THEN a ELSE b

RECURSIVE Concat(_)
Concat(ss) == IF ss = <<>> THEN <<>> ELSE Head(ss) \o Concat(Tail(ss))

(***************************************************************************)
(* The file schema, as parquet_to_arrow_schema derives it: one field per   *)
(* leaf column, nullable iff the Parquet column is OPTIONAL.  One column   *)
(* per code path of load_batch.                                            *)
(***************************************************************************)
FileSchema ==
    << [name |-> "id",    phys |-> "INT32",      data_type |-> "Int32",         nullable |-> FALSE],
       [name |-> "opt",   phys |-> "INT32",      data_type |-> "Int32",         nullable |-> TRUE],
       [name |-> "ts",    phys |-> "INT96",      data_type |-> "Timestamp(ns)", nullable |-> TRUE],
       [name |-> "ts_rq", phys |-> "INT96",      data_type |-> "Timestamp(ns)", nullable |-> FALSE],
       [name |-> "str",   phys |-> "BYTE_ARRAY", data_type |-> "Utf8",          nullable |-> TRUE],
       [name |-> "str_rq", phys |-> "BYTE_ARRAY", data_type |-> "Utf8",         nullable |-> FALSE] >>

JULIAN_DAY_OF_EPOCH == 2440588

(***************************************************************************)
(* The calls reader.get_row_group and reader.get_column_reader of          *)
(* load_next_row_group return a Result.  lib_fault names the one call that *)
(* returns Err on this file, if any: for row group `row_group`, the call   *)
(* get_row_group (column 0) or the call get_column_reader of projected     *)
(* column `column`.                                                        *)
(***************************************************************************)
NoLibFault == [row_group |-> 0, column |-> 0]

(***************************************************************************)
(* The value stored in the file at row r of row group g, column c.  Every  *)
(* cell is distinct, so that a lost, repeated or misplaced row shows.  An  *)
(* INT96 value is the triple <<nanos_low, nanos_high, julian_day>>.        *)
(***************************************************************************)
StoredValue(g, r, c) ==
    IF file_schema[c].phys = "INT96"
    THEN <<r, c, JULIAN_DAY_OF_EPOCH + g>>
    ELSE <<g, r, c>>

\* definition level of a stored cell: 0 = null, max level (1) = present
DefLevel(g, r, c) ==
    IF file_schema[c].nullable /\ r \in nullRows THEN 0 ELSE 1

\* a schema_projection that leaves out the indices that are out of range
schema_projection_SkipsInvalid(schema, p) ==
    [ok |-> TRUE,
     fields |-> [k \in 1..Len(SelectSeq(p, LAMBDA i : i <= Len(schema))) |->
                   schema[SelectSeq(p, LAMBDA i : i <= Len(schema))[k]]],
     err |-> "none"]

(***************************************************************************)
(* schema_projection: the fields at the projected indices, in the given    *)
(* order; InvalidColumn if an index is out of range.                       *)
(***************************************************************************)
schema_projection(schema, p) ==
    IF \A k \in 1..Len(p) : p[k] <= Len(schema)
    THEN [ok |-> TRUE,  fields |-> [k \in 1..Len(p) |-> schema[p[k]]],
          err |-> "none"]
    ELSE [ok |-> FALSE, fields |-> <<>>, err |-> "InvalidColumn"]

(***************************************************************************)
(* ParquetFile::open on a file whose metadata gives the Arrow schema       *)
(* fschema.  File::open fails on a file that cannot be opened ("io"),      *)
(* SerializedFileReader::new and parquet_to_arrow_schema fail on a file    *)
(* they cannot parse ("parquet"); both errors leave with `?`.  An absent   *)
(* projection becomes all columns.  The test for LIST and STRUCT fields is *)
(* commented out in the code, so no field type is looked at.               *)
(***************************************************************************)
ParquetFile_open(status, fschema, projOpt) ==
    LET p  == IF projOpt.some THEN projOpt.p
              ELSE [i \in 1..Len(fschema) |-> i]
        ps == schema_projection(fschema, p)
    IN  IF status = "io"
        THEN [ok |-> FALSE, err |-> "IoError", projection |-> <<>>,
              projection_schema |-> <<>>]
        ELSE IF status = "parquet"
        THEN [ok |-> FALSE, err |-> "ParquetError", projection |-> <<>>,
              projection_schema |-> <<>>]
        ELSE IF ~ps.ok
        THEN [ok |-> FALSE, err |-> ps.err, projection |-> <<>>,
              projection_schema |-> <<>>]
        ELSE [ok |-> TRUE, err |-> "none", projection |-> p,
              projection_schema |-> ps.fields]

\* ParquetFile::open on the readable file of flat columns
open(projOpt) == ParquetFile_open("ok", FileSchema, projOpt)

\* ParquetFile::schema
schema == schema_projection(file_schema, projection).fields

\* a read_batch that leaves the column reader where it was
read_batch_NoAdvance(g, c, pos, bs, wantDef) ==
    LET n      == Min(bs, numRows[g] - pos)
        rows   == [i \in 1..n |-> pos + i]
        levels == [i \in 1..n |-> DefLevel(g, rows[i], c)]
        present == SelectSeq(rows, LAMBDA r : DefLevel(g, r, c) > 0)
        values == [i \in 1..Len(present) |-> StoredValue(g, present[i], c)]
    IN  IF file_schema[c].nullable /\ wantDef
        THEN [values_read |-> Len(values), levels_read |-> n,
              def_levels |-> levels, read_buffer |-> values, pos |-> pos]
        ELSE [values_read |-> Len(values), levels_read |-> 0,
              def_levels |-> <<>>, read_buffer |-> values, pos |-> pos]

(***************************************************************************)
(* ColumnReaderImpl::read_batch of the Parquet library, on the column      *)
(* chunk of column c of row group g with `pos` values already decoded.     *)
(* It reads up to batch_size levels/values.  Definition levels are read    *)
(* only when they are requested and the column is OPTIONAL; for a REQUIRED *)
(* column levels_read is 0.                                                *)
(***************************************************************************)
read_batch(g, c, pos, bs, wantDef) ==
    LET n      == Min(bs, numRows[g] - pos)
        rows   == [i \in 1..n |-> pos + i]
        levels == [i \in 1..n |-> DefLevel(g, rows[i], c)]
        present == SelectSeq(rows, LAMBDA r : DefLevel(g, r, c) > 0)
        values == [i \in 1..Len(present) |-> StoredValue(g, present[i], c)]
    IN  IF file_schema[c].nullable /\ wantDef
        THEN [values_read |-> Len(values), levels_read |-> n,
              def_levels |-> levels, read_buffer |-> values, pos |-> pos + n]
        ELSE [values_read |-> Len(values), levels_read |-> 0,
              def_levels |-> <<>>, read_buffer |-> values, pos |-> pos + n]

NullCell == [null |-> TRUE, v |-> <<>>]
ValueCell(v) == [null |-> FALSE, v |-> v]

\* number of present values among the first i definition levels: the value
\* of value_index after i iterations of the builder loops
value_index(def_levels, i) ==
    Cardinality({j \in 1..i : def_levels[j] > 0})

\* String::from_utf8(bytes): the bytes of the value read as text
FromUtf8(v) == [utf8 |-> v]

(***************************************************************************)
(* convert_int96_timestamp.  The result, (day - JULIAN_DAY_OF_EPOCH) *     *)
(* 86400 * 10^9 + (v[1] << 32) + v[0], is kept as its two summands (whole  *)
(* days since the epoch, nanoseconds word pair).                           *)
(***************************************************************************)
convert_int96_timestamp(v) ==
    [days |-> v[3] - JULIAN_DAY_OF_EPOCH, nanos_high |-> v[2], nanos_low |-> v[1]]

(***************************************************************************)
(* Integers wider than the model checker's own: NumLimbs digits of base    *)
(* Base, least significant first, in two's complement.  The width holds    *)
(* every exact intermediate value of convert_int96_timestamp; an i64 is    *)
(* one whose digits past the eighth are the extension of its sign.         *)
(***************************************************************************)
Base == 256
NumLimbs == 12
I64Limbs == 8

RECURSIVE Digits(_, _)
Digits(n, k) == IF k = 0 THEN <<>> ELSE <<n % Base>> \o Digits(n \div Base, k - 1)

\* a natural number of the model checker, widened
OfNat(n) == Digits(n, NumLimbs)

\* `as i64` of a u32 given as its 4 bytes: zero extension
Widen(bytes) == [i \in 1..NumLimbs |-> IF i <= Len(bytes) THEN bytes[i] ELSE 0]

RECURSIVE AddCarry(_, _, _)
AddCarry(a, b, i) ==
    IF i = 0 THEN 0 ELSE (a[i] + b[i] + AddCarry(a, b, i - 1)) \div Base

WideAdd(a, b) ==
    [i \in 1..NumLimbs |-> (a[i] + b[i] + AddCarry(a, b, i - 1)) % Base]

WideNeg(a) == WideAdd([i \in 1..NumLimbs |-> Base - 1 - a[i]], OfNat(1))

WideSub(a, b) == WideAdd(a, WideNeg(b))

RECURSIVE MulColumn(_, _, _, _)
MulColumn(a, b, k, i) ==
    IF i = 0 THEN 0 ELSE a[i] * b[k + 1 - i] + MulColumn(a, b, k, i - 1)

RECURSIVE MulCarry(_, _, _)
MulCarry(a, b, k) ==
    IF k = 0 THEN 0
    ELSE (MulColumn(a, b, k, k) + MulCarry(a, b, k - 1)) \div Base

WideMul(a, b) ==
    [k \in 1..NumLimbs |-> (MulColumn(a, b, k, k) + MulCarry(a, b, k - 1)) % Base]

\* a << 32, exact
WideShl32(a) == [i \in 1..NumLimbs |-> IF i <= 4 THEN 0 ELSE a[i - 4]]

\* the low 64 bits, read as an i64
Wrap64(a) ==
    [i \in 1..NumLimbs |->
        IF i <= I64Limbs THEN a[i]
        ELSE IF a[I64Limbs] >= Base \div 2 THEN Base - 1 ELSE 0]

FitsI64(a) == Wrap64(a) = a

SECONDS_PER_DAY == 86400
MILLIS_PER_SECOND == 1000
NANOS_PER_MILLI == 1000000

\* the outcome of an i64 `+`, `-` or `*` whose exact result is `exact`: the
\* result, a panic where the build checks overflow, the wrapped result
\* where it does not; a panic of an operand is passed on
Overflowing(operand, exact, checks) ==
    IF operand.kind = "panic" THEN operand
    ELSE IF FitsI64(exact) THEN [kind |-> "value", v |-> exact]
    ELSE IF checks THEN [kind |-> "panic", v |-> <<>>]
    ELSE [kind |-> "value", v |-> Wrap64(exact)]

I64Value(a) == [kind |-> "value", v |-> a]

\* operand * c and operand + b of i64 values
I64Mul(operand, c, checks) ==
    IF operand.kind = "panic" THEN operand
    ELSE Overflowing(operand, WideMul(operand.v, OfNat(c)), checks)
I64Add(operand, b, checks) ==
    IF operand.kind = "panic" \/ b.kind = "panic"
    THEN [kind |-> "panic", v |-> <<>>]
    ELSE Overflowing(operand, WideAdd(operand.v, b.v), checks)

\* let nanoseconds = ((v[1] as i64) << 32) + v[0] as i64; the shift drops
\* the bits past the 64th in every build
Int96Nanoseconds(v, checks) ==
    I64Add(I64Value(Wrap64(WideShl32(Widen(v[2])))), I64Value(Widen(v[1])), checks)

\* let seconds = (day - JULIAN_DAY_OF_EPOCH) * SECONDS_PER_DAY
Int96Seconds(v, checks) ==
    I64Mul(Overflowing(I64Value(Widen(v[3])),
                       WideSub(Widen(v[3]), OfNat(JULIAN_DAY_OF_EPOCH)), checks),
           SECONDS_PER_DAY, checks)

(***************************************************************************)
(* convert_int96_timestamp on the words v = <<nanos_low, nanos_high,       *)
(* julian_day>> with every i64 operation of the code at its width:         *)
(* seconds * MILLIS_PER_SECOND * 1_000_000 + nanoseconds.                  *)
(***************************************************************************)
convert_int96_timestamp_i64(v, checks) ==
    I64Add(I64Mul(I64Mul(Int96Seconds(v, checks), MILLIS_PER_SECOND, checks),
                  NANOS_PER_MILLI, checks),
           Int96Nanoseconds(v, checks), checks)

\* the conversion of a value of the read buffer to a value of the array:
\* `.into()`, String::from_utf8 or convert_int96_timestamp
Convert(conv, v) ==
    CASE conv = "into" -> v
      [] conv = "from_utf8" -> FromUtf8(v)
      [] conv = "int96" -> convert_int96_timestamp(v)

\* the loop without `value_index += 1`
AppendByLevels_NoAdvance(rb, conv) ==
    [i \in 1..rb.levels_read |->
        IF rb.def_levels[i] > 0
        THEN ValueCell(Convert(conv, rb.read_buffer[1]))
        ELSE NullCell]

\* the loop `for i in 0..levels_read` that appends a value or a null
AppendByLevels(rb, conv) ==
    [i \in 1..rb.levels_read |->
        IF rb.def_levels[i] > 0
        THEN ValueCell(Convert(conv, rb.read_buffer[value_index(rb.def_levels, i)]))
        ELSE NullCell]

\* builder.append_slice(&converted_buffer[0..values_read])
AppendSlice(rb, conv) ==
    [i \in 1..rb.values_read |-> ValueCell(Convert(conv, rb.read_buffer[i]))]

\* ArrowReader::read for the primitive types
ArrowReader_read(rb, is_nullable) ==
    IF is_nullable
    THEN IF rb.values_read = rb.levels_read
         THEN AppendSlice(rb, "into")
         ELSE AppendByLevels(rb, "into")
    ELSE AppendSlice(rb, "into")

\* macro read_binary_column
read_binary_column(rb, is_nullable) ==
    IF is_nullable
    THEN AppendByLevels(rb, "from_utf8")
    ELSE AppendSlice(rb, "from_utf8")

\* the physical types read through ArrowReader::read, through
\* read_binary_column
PrimitivePhys == {"BOOLEAN", "INT32", "INT64", "FLOAT", "DOUBLE"}
BinaryPhys == {"BYTE_ARRAY", "FIXED_LEN_BYTE_ARRAY"}

(***************************************************************************)
(* The Arrow type of the array a match arm of load_batch builds: the type  *)
(* parameter of its ArrowReader::read, TimestampNanosecondBuilder for      *)
(* INT96, StringBuilder for the byte arrays.  The arm of an INT64 column   *)
(* of type Timestamp(Nanosecond) reads with TimestampMicrosecondType.      *)
(***************************************************************************)
BuilderType(phys, dt) ==
    CASE phys = "BOOLEAN" -> "Boolean"
      [] phys = "INT32" ->
            IF dt \in {"Date32(Day)", "Time32(ms)"} THEN dt ELSE "Int32"
      [] phys = "INT64" ->
            IF dt \in {"Time64(us)", "Time64(ns)", "Timestamp(ms)", "Timestamp(us)"}
            THEN dt
            ELSE IF dt = "Timestamp(ns)" THEN "Timestamp(us)"
            ELSE "Int64"
      [] phys = "INT96" -> "Timestamp(ns)"
      [] phys = "FLOAT" -> "Float32"
      [] phys = "DOUBLE" -> "Float64"
      [] phys \in BinaryPhys -> "Utf8"

(***************************************************************************)
(* One iteration of the column loop of load_batch: read column reader i    *)
(* of the loaded row group and build its array.                            *)
(***************************************************************************)
\* the match arm of the column's physical type, on the outcome rb of its
\* read_batch call: the array built and the reader's new position
BuildArray(f, rb) ==
    [array |-> [data_type |-> BuilderType(f.phys, f.data_type),
                cells |-> CASE f.phys \in PrimitivePhys -> ArrowReader_read(rb, f.nullable)
                            [] f.phys = "INT96"      -> AppendByLevels(rb, "int96")
                            [] f.phys \in BinaryPhys -> read_binary_column(rb, f.nullable)],
     pos |-> rb.pos]

\* the read_batch call of the arm (an INT96 column always asks for the
\* definition levels), then the arm
ReadColumn(g, i, readers) ==
    BuildArray(schema[i],
               read_batch(g, projection[i], readers[i], batch_size,
                          IF schema[i].phys = "INT96" THEN TRUE
                          ELSE schema[i].nullable))

(***************************************************************************)
(* Result<Option<RecordBatch>>: Ok(Some(batch)), Ok(None) or Err(e).  The  *)
(* kind "Init" stands for "no call has returned yet".                      *)
(***************************************************************************)
ResSome(fields, columns) ==
    [kind |-> "Some", err |-> "", schema |-> fields, columns |-> columns]
ResNone == [kind |-> "None", err |-> "", schema |-> <<>>, columns |-> <<>>]
ResErr(e) == [kind |-> "Err", err |-> e, schema |-> <<>>, columns |-> <<>>]
ResInit == [kind |-> "Init", err |-> "", schema |-> <<>>, columns |-> <<>>]

(***************************************************************************)
(* RecordBatch::try_new of the Arrow library: rejects an empty column      *)
(* list, a column count different from the schema's, columns of unequal    *)
(* length and a column whose type differs from its field's.                *)
(***************************************************************************)
RecordBatch_try_new(fields, columns) ==
    IF /\ Len(columns) > 0
       /\ Len(columns) = Len(fields)
       /\ \A i \in 1..Len(columns) :
            /\ Len(columns[i].cells) = Len(columns[1].cells)
            /\ columns[i].data_type = fields[i].data_type
    THEN ResSome(fields, columns)
    ELSE ResErr("Arrow")

Reader == [row_group_index |-> row_group_index,
           current_row_group |-> current_row_group,
           column_readers |-> column_readers,
           readers_row_group |-> readers_row_group]

num_row_groups == Len(numRows)

(***************************************************************************)
(* ParquetFile::load_next_row_group                                        *)
(***************************************************************************)
load_next_row_group(rd) ==
    IF rd.row_group_index < num_row_groups
    THEN IF lib_fault.row_group # rd.row_group_index + 1
              \/ lib_fault.column > Len(projection)
         THEN [ok |-> TRUE, err |-> "",
               rd |-> [row_group_index   |-> rd.row_group_index + 1,
                       current_row_group |-> rd.row_group_index + 1,
                       column_readers    |-> [i \in 1..Len(projection) |-> 0],
                       readers_row_group |-> rd.row_group_index + 1]]
         ELSE IF lib_fault.column = 0
         THEN [ok |-> FALSE, err |-> "Parquet", rd |-> rd]
         ELSE [ok |-> FALSE, err |-> "Parquet",
               rd |-> [rd EXCEPT
                          !.column_readers = [i \in 1..(lib_fault.column - 1) |-> 0],
                          !.readers_row_group = rd.row_group_index + 1]]
    ELSE [ok |-> FALSE, err |-> "General: Attempt to read past final row group",
          rd |-> rd]

\* load_batch without the test for an empty first column
load_batch_NoEmptyTest(rd) ==
    IF rd.current_row_group = 0
    THEN [res |-> ResNone, rd |-> rd]
    ELSE
      LET cols  == [i \in 1..Len(rd.column_readers) |->
                       ReadColumn(rd.readers_row_group, i, rd.column_readers)]
          batch == [i \in 1..Len(cols) |-> cols[i].array]
          rd2   == [rd EXCEPT !.column_readers =
                       [i \in 1..Len(cols) |-> cols[i].pos]]
      IN  IF Len(batch) = 0
          THEN [res |-> ResNone, rd |-> rd2]
          ELSE [res |-> RecordBatch_try_new(schema, batch), rd |-> rd2]

(***************************************************************************)
(* ParquetFile::load_batch                                                 *)
(***************************************************************************)
load_batch(rd) ==
    IF rd.current_row_group = 0
    THEN [res |-> ResNone, rd |-> rd]
    ELSE
      LET cols  == [i \in 1..Len(rd.column_readers) |->
                       ReadColumn(rd.readers_row_group, i, rd.column_readers)]
          batch == [i \in 1..Len(cols) |-> cols[i].array]
          rd2   == [rd EXCEPT !.column_readers =
                       [i \in 1..Len(cols) |-> cols[i].pos]]
      IN  IF Len(batch) = 0 \/ Len(batch[1].cells) = 0
          THEN [res |-> ResNone, rd |-> rd2]
          ELSE [res |-> RecordBatch_try_new(schema, batch), rd |-> rd2]

\* a next that loads the next row group after every None of load_batch,
\* without the test of row_group_index
next_NoEndTest(rd) ==
    IF rd.current_row_group = 0
    THEN IF load_next_row_group(rd).ok
         THEN load_batch(load_next_row_group(rd).rd)
         ELSE [res |-> ResErr(load_next_row_group(rd).err),
               rd |-> load_next_row_group(rd).rd]
    ELSE LET b == load_batch(rd)
         IN  IF b.res.kind = "None"
             THEN IF load_next_row_group(b.rd).ok
                  THEN load_batch(load_next_row_group(b.rd).rd)
                  ELSE [res |-> ResErr(load_next_row_group(b.rd).err),
                        rd |-> load_next_row_group(b.rd).rd]
             ELSE b

(***************************************************************************)
(* ParquetFile::next                                                       *)
(***************************************************************************)
\* self.load_next_row_group()?; self.load_batch()
LoadThenBatch(rd) ==
    IF load_next_row_group(rd).ok
    THEN load_batch(load_next_row_group(rd).rd)
    ELSE [res |-> ResErr(load_next_row_group(rd).err),
          rd |-> load_next_row_group(rd).rd]

next(rd) ==
    IF rd.current_row_group = 0
    THEN LoadThenBatch(rd)
    ELSE LET b == load_batch(rd)
         IN  IF b.res.kind = "None"
             THEN IF b.rd.row_group_index < num_row_groups
                  THEN LoadThenBatch(b.rd)
                  ELSE [res |-> ResNone, rd |-> b.rd]
             ELSE b

(***************************************************************************)
(* Files, projections and the state after a successful ParquetFile::open.  *)
(***************************************************************************)
SeqsUpTo(S, n) == UNION {[1..k -> S] : k \in 0..n}

ProjectionOptions ==
    {[some |-> TRUE, p |-> p] : p \in SeqsUpTo(1..Len(FileSchema), MaxProj)}
        \cup {[some |-> FALSE, p |-> <<>>]}

InitFile ==
    /\ numRows \in SeqsUpTo(0..MaxRows, MaxRowGroups)
    /\ nullRows \in SUBSET (1..MaxRows)
    /\ batch_size \in 1..MaxBatchSize
    /\ \E po \in ProjectionOptions :
         /\ open(po).ok
         /\ projection = open(po).projection
    /\ row_group_index = 0
    /\ current_row_group = 0
    /\ column_readers = <<>>
    /\ readers_row_group = 0

\* ParquetFile::open is not followed
NoOpen ==
    /\ file_status = "ok"
    /\ file_schema = FileSchema
    /\ lib_fault = NoLibFault
    /\ open_projection = [some |-> FALSE, p |-> <<>>]
    /\ opened = [kind |-> "none"]

\* convert_int96_timestamp is not followed
NoConv ==
    /\ int96 = <<>>
    /\ overflow_checks = FALSE
    /\ timestamp = [kind |-> "none"]

\* the plan methods are not followed
NoPlan ==
    /\ distribution = "none"
    /\ new_plan = [kind |-> "none"]

InitCaller ==
    /\ calls = 0
    /\ result = ResInit
    /\ delivered = <<>>
    /\ sawNone = FALSE
    /\ NoOpen
    /\ NoConv
    /\ NoPlan

\* no Parquet file
NoReader ==
    /\ numRows = <<>>
    /\ nullRows = {}
    /\ batch_size = 1
    /\ projection = <<>>
    /\ row_group_index = 0
    /\ current_row_group = 0
    /\ column_readers = <<>>
    /\ readers_row_group = 0

\* no partition wrapper: the reader is driven directly
NoScan ==
    /\ openFails = FALSE
    /\ wpc = "none"
    /\ cpc = "none"
    /\ request_q = 0
    /\ response_q = <<>>
    /\ callerResults = <<>>
    /\ readerResults = <<>>

\* no aggregate operator
NoAgg ==
    /\ mode = "Partial"
    /\ group_expr = <<>>
    /\ aggr_expr = <<>>
    /\ a_type = "UInt32"
    /\ finished = FALSE
    /\ apc = "none"
    /\ accumulators = <<>>
    /\ polls = 0
    /\ items = <<>>
    /\ pendings = 0
    /\ nInput = 0
    /\ upstream = "none"
    /\ seenKeys = {}
    /\ stage = 0
    /\ merged = <<>>
    /\ ref = <<>>

Init == InitFile /\ InitCaller /\ NoScan /\ NoAgg

(***************************************************************************)
(* A call of ParquetFile::next by the owner of the reader.                 *)
(***************************************************************************)
CallNext ==
    /\ calls < MaxCalls
    /\ \E n \in {next(Reader)} :
           /\ row_group_index' = n.rd.row_group_index
           /\ current_row_group' = n.rd.current_row_group
           /\ column_readers' = n.rd.column_readers
           /\ readers_row_group' = n.rd.readers_row_group
           /\ result' = n.res
           /\ delivered' = IF n.res.kind = "Some" /\ ~sawNone
                           THEN Append(delivered, n.res) ELSE delivered
           /\ sawNone' = (sawNone \/ n.res.kind = "None")
    /\ calls' = calls + 1
    /\ UNCHANGED <<numRows, nullRows, projection, batch_size, openVars, convVars,
                   planVars>>
    /\ UNCHANGED <<scanVars, aggVars, pipeVars>>

Next == CallNext

Spec == Init /\ [][Next]_vars

(***************************************************************************)
(* The reader on a file on which one call of the Parquet library made by   *)
(* load_next_row_group returns Err: get_row_group of one row group, or     *)
(* get_column_reader of one projected column of one row group.             *)
(***************************************************************************)
LibFaults(groups, columns) ==
    {[row_group |-> g, column |-> k] : g \in 1..groups, k \in 0..columns}

InitFaulty ==
    /\ InitFile
    /\ nullRows = {}
    /\ calls = 0
    /\ result = ResInit
    /\ delivered = <<>>
    /\ sawNone = FALSE
    /\ file_status = "ok"
    /\ file_schema = FileSchema
    /\ lib_fault \in LibFaults(Len(numRows), Len(projection))
    /\ open_projection = [some |-> FALSE, p |-> <<>>]
    /\ opened = [kind |-> "none"]
    /\ NoConv
    /\ NoPlan
    /\ NoScan
    /\ NoAgg

SpecFaulty == InitFaulty /\ [][Next]_vars

(***************************************************************************)
(* ParquetFile::open, called once on a file and a projection.  The file    *)
(* may be unreadable; its schema may hold LIST and STRUCT fields, which    *)
(* the commented-out loop of open names; the projection may hold indices   *)
(* past the last field.                                                    *)
(***************************************************************************)
NestedSchema ==
    << [name |-> "id",   phys |-> "INT32", data_type |-> "Int32",  nullable |-> FALSE],
       [name |-> "tags", phys |-> "GROUP", data_type |-> "List",   nullable |-> TRUE],
       [name |-> "addr", phys |-> "GROUP", data_type |-> "Struct", nullable |-> TRUE] >>

FileSchemas == {FileSchema, NestedSchema}

FileStatuses == {"ok", "io", "parquet"}

\* Option<Vec<usize>>: None, or indices of which the largest is out of range
OpenArgs(fschema) ==
    {[some |-> TRUE, p |-> p] : p \in SeqsUpTo(1..(Len(fschema) + 1), MaxProj)}
        \cup {[some |-> FALSE, p |-> <<>>]}

InitOpen ==
    /\ file_status \in FileStatuses
    /\ file_schema \in FileSchemas
    /\ lib_fault = NoLibFault
    /\ open_projection \in OpenArgs(file_schema)
    /\ opened = [kind |-> "none"]
    /\ batch_size \in 1..MaxBatchSize
    /\ numRows = <<>>
    /\ nullRows = {}
    /\ projection = <<>>
    /\ row_group_index = 0
    /\ current_row_group = 0
    /\ column_readers = <<>>
    /\ readers_row_group = 0
    /\ calls = 0
    /\ result = ResInit
    /\ delivered = <<>>
    /\ sawNone = FALSE
    /\ NoConv
    /\ NoPlan
    /\ NoScan
    /\ NoAgg

\* ParquetFile::open(filename, projection, batch_size)
Open ==
    /\ opened.kind = "none"
    /\ \E o \in {ParquetFile_open(file_status, file_schema, open_projection)} :
           /\ opened' = [kind |-> IF o.ok THEN "Ok" ELSE "Err", err |-> o.err,
                         projection_schema |-> o.projection_schema]
           /\ projection' = IF o.ok THEN o.projection ELSE projection
    /\ row_group_index' = 0
    /\ current_row_group' = 0
    /\ column_readers' = <<>>
    /\ readers_row_group' = 0
    /\ UNCHANGED <<numRows, nullRows, batch_size, calls, result, delivered,
                   sawNone, file_status, file_schema, lib_fault, open_projection,
                   convVars, planVars>>
    /\ UNCHANGED <<scanVars, aggVars, pipeVars>>

NextOpen == Open

SpecOpen == InitOpen /\ [][NextOpen]_vars

(***************************************************************************)
(* The reader on a file with one column per pair (Parquet physical type,   *)
(* Arrow type of the field) that the match arms of load_batch tell apart,  *)
(* read one column at a time.                                              *)
(***************************************************************************)
TypeTable ==
    << [phys |-> "BOOLEAN", data_type |-> "Boolean"],
       [phys |-> "INT32",   data_type |-> "Int32"],
       [phys |-> "INT32",   data_type |-> "Date32(Day)"],
       [phys |-> "INT32",   data_type |-> "Time32(ms)"],
       [phys |-> "INT64",   data_type |-> "Int64"],
       [phys |-> "INT64",   data_type |-> "Time64(us)"],
       [phys |-> "INT64",   data_type |-> "Time64(ns)"],
       [phys |-> "INT64",   data_type |-> "Timestamp(ms)"],
       [phys |-> "INT64",   data_type |-> "Timestamp(us)"],
       [phys |-> "INT64",   data_type |-> "Timestamp(ns)"],
       [phys |-> "INT96",   data_type |-> "Timestamp(ns)"],
       [phys |-> "FLOAT",   data_type |-> "Float32"],
       [phys |-> "DOUBLE",  data_type |-> "Float64"],
       [phys |-> "BYTE_ARRAY", data_type |-> "Utf8"],
       [phys |-> "FIXED_LEN_BYTE_ARRAY", data_type |-> "Utf8"] >>

\* the file schema of the table's columns, all OPTIONAL or all REQUIRED
TypedSchema(nullable) ==
    [k \in 1..Len(TypeTable) |->
        [name |-> <<TypeTable[k].phys, TypeTable[k].data_type>>,
         phys |-> TypeTable[k].phys,
         data_type |-> TypeTable[k].data_type,
         nullable |-> nullable]]

InitTypes ==
    /\ numRows \in {<<n>> : n \in 1..MaxRows}
    /\ nullRows \in SUBSET (1..MaxRows)
    /\ batch_size \in 1..MaxBatchSize
    /\ file_status = "ok"
    /\ file_schema \in {TypedSchema(nullable) : nullable \in BOOLEAN}
    /\ lib_fault = NoLibFault
    /\ \E c \in 1..Len(TypeTable) :
          /\ open_projection = [some |-> TRUE, p |-> <<c>>]
          /\ projection = <<c>>
    /\ opened = [kind |-> "none"]
    /\ row_group_index = 0
    /\ current_row_group = 0
    /\ column_readers = <<>>
    /\ readers_row_group = 0
    /\ calls = 0
    /\ result = ResInit
    /\ delivered = <<>>
    /\ sawNone = FALSE
    /\ NoConv
    /\ NoPlan
    /\ NoScan
    /\ NoAgg

SpecTypes == InitTypes /\ [][Next]_vars

(***************************************************************************)
(* convert_int96_timestamp, called once on three words, in a build that    *)
(* checks integer overflow or in one that does not.  The words are the     *)
(* ends and the middle of the u32 range; the days are those around the     *)
(* epoch, the first timestamp of alltypes_plain.parquet, and those around  *)
(* the last day whose nanoseconds fit in an i64.                           *)
(***************************************************************************)
NanoWords ==
    { <<0, 0, 0, 0>>, <<1, 0, 0, 0>>, <<255, 255, 255, 127>>,
      <<0, 0, 0, 128>>, <<255, 255, 255, 255>> }

DayOffsets == {-106753, -106752, -106751, -1, 0, 1, 14304, 106751, 106752}

DayWords ==
    {Digits(JULIAN_DAY_OF_EPOCH + d, 4) : d \in DayOffsets}
        \cup { <<0, 0, 0, 0>>, <<255, 255, 255, 255>> }

InitInt96 ==
    /\ int96 \in {<<lo, hi, day>> : lo \in NanoWords, hi \in NanoWords, day \in DayWords}
    /\ overflow_checks \in BOOLEAN
    /\ timestamp = [kind |-> "none"]
    /\ NoReader
    /\ calls = 0
    /\ result = ResInit
    /\ delivered = <<>>
    /\ sawNone = FALSE
    /\ NoOpen
    /\ NoPlan
    /\ NoScan
    /\ NoAgg

\* convert_int96_timestamp(read_buffer[value_index].data())
ConvertInt96 ==
    /\ timestamp.kind = "none"
    /\ timestamp' = convert_int96_timestamp_i64(int96, overflow_checks)
    /\ UNCHANGED <<int96, overflow_checks, calls, result, delivered, sawNone,
                   openVars, planVars, readerVars, scanVars, aggVars, pipeVars>>

NextInt96 == ConvertInt96

SpecInt96 == InitInt96 /\ [][NextInt96]_vars

(***************************************************************************)
(* ParquetScanPartition: a worker thread owns the ParquetFile and talks to *)
(* the partition through two unbounded crossbeam channels.  A channel end  *)
(* lives as long as its owner: request_rx and response_tx until the worker *)
(* thread has exited, request_tx and response_rx until the partition is    *)
(* dropped.  send fails when the receiver is gone; recv returns the        *)
(* buffered messages first and fails when the channel is empty and the     *)
(* sender is gone.                                                         *)
(***************************************************************************)
MaxPulls == 3

WorkerEndsAlive == wpc # "exited"
PartitionAlive == cpc # "dropped"

ConstructionError == ResErr("open")

InitScan ==
    /\ InitFile
    /\ InitCaller
    /\ openFails \in BOOLEAN
    /\ wpc = "open"
    /\ cpc = "idle"
    /\ request_q = 0
    /\ response_q = <<>>
    /\ callerResults = <<>>
    /\ readerResults = <<>>
    /\ NoAgg

\* thread::spawn closure: ParquetFile::open succeeds, enter the loop
WorkerOpenOk ==
    /\ wpc = "open"
    /\ ~openFails
    /\ wpc' = "recv"
    /\ UNCHANGED <<aggVars, pipeVars, readerVars, callerVars, openFails, cpc, request_q,
                   response_q, callerResults, readerResults>>

\* a worker that sends its construction error twice
WorkerOpenErr_SendsTwice ==
    /\ wpc = "open"
    /\ openFails
    /\ IF PartitionAlive
       THEN /\ response_q' = response_q \o <<ConstructionError, ConstructionError>>
            /\ wpc' = "exiting"
       ELSE /\ wpc' = "panicked"
            /\ UNCHANGED response_q
    /\ UNCHANGED <<aggVars, pipeVars, readerVars, callerVars, openFails, cpc, request_q,
                   callerResults, readerResults>>

\* ParquetFile::open fails: response_tx.send(Err(e)).unwrap()
WorkerOpenErr ==
    /\ wpc = "open"
    /\ openFails
    /\ IF PartitionAlive
       THEN /\ response_q' = Append(response_q, ConstructionError)
            /\ wpc' = "exiting"
       ELSE /\ wpc' = "panicked"
            /\ UNCHANGED response_q
    /\ UNCHANGED <<aggVars, pipeVars, readerVars, callerVars, openFails, cpc, request_q,
                   callerResults, readerResults>>

\* `while let Ok(_) = request_rx.recv()`: a pull arrives
WorkerRecv ==
    /\ wpc = "recv"
    /\ request_q > 0
    /\ request_q' = request_q - 1
    /\ wpc' = "serve"
    /\ UNCHANGED <<aggVars, pipeVars, readerVars, callerVars, openFails, cpc, response_q,
                   callerResults, readerResults>>

\* a recv that keeps waiting on a channel whose sender is gone
WorkerRecvClosed_Blocks ==
    /\ wpc = "recv"
    /\ request_q = 0
    /\ ~PartitionAlive
    /\ wpc' = "recv"
    /\ UNCHANGED <<aggVars, pipeVars, readerVars, callerVars, openFails, cpc, request_q,
                   response_q, callerResults, readerResults>>

\* request_rx.recv() fails: the channel is empty and request_tx is dropped
WorkerRecvClosed ==
    /\ wpc = "recv"
    /\ request_q = 0
    /\ ~PartitionAlive
    /\ wpc' = "exiting"
    /\ UNCHANGED <<aggVars, pipeVars, readerVars, callerVars, openFails, cpc, request_q,
                   response_q, callerResults, readerResults>>

\* a worker that replies Ok(None) where the reader returned an error
WorkerServe_DropsError ==
    /\ wpc = "serve"
    /\ \E n \in {next(Reader)} :
           /\ row_group_index' = n.rd.row_group_index
           /\ current_row_group' = n.rd.current_row_group
           /\ column_readers' = n.rd.column_readers
           /\ readers_row_group' = n.rd.readers_row_group
           /\ readerResults' = Append(readerResults, n.res)
           /\ IF PartitionAlive
              THEN /\ response_q' = Append(response_q,
                        IF n.res.kind = "Err" THEN ResNone ELSE n.res)
                   /\ wpc' = "recv"
              ELSE /\ wpc' = "panicked"
                   /\ UNCHANGED response_q
    /\ UNCHANGED <<aggVars, pipeVars, numRows, nullRows, projection, batch_size,
                   callerVars, openFails, cpc, request_q, callerResults>>

\* response_tx.send(table.next()).unwrap()
WorkerServe ==
    /\ wpc = "serve"
    /\ \E n \in {next(Reader)} :
           /\ row_group_index' = n.rd.row_group_index
           /\ current_row_group' = n.rd.current_row_group
           /\ column_readers' = n.rd.column_readers
           /\ readers_row_group' = n.rd.readers_row_group
           /\ readerResults' = Append(readerResults, n.res)
           /\ IF PartitionAlive
              THEN /\ response_q' = Append(response_q, n.res)
                   /\ wpc' = "recv"
              ELSE /\ wpc' = "panicked"
                   /\ UNCHANGED response_q
    /\ UNCHANGED <<aggVars, pipeVars, numRows, nullRows, projection, batch_size,
                   callerVars, openFails, cpc, request_q, callerResults>>

\* the closure returns (or unwinds) and its channel ends are dropped
WorkerExit ==
    /\ wpc \in {"exiting", "panicked"}
    /\ wpc' = "exited"
    /\ UNCHANGED <<aggVars, pipeVars, readerVars, callerVars, openFails, cpc, request_q,
                   response_q, callerResults, readerResults>>

\* ParquetScanPartition::next, first half: self.request_tx.send(())
ScanNextSend ==
    /\ cpc = "idle"
    /\ Len(callerResults) < MaxPulls
    /\ IF WorkerEndsAlive
       THEN /\ request_q' = request_q + 1
            /\ cpc' = "waiting"
            /\ UNCHANGED callerResults
       ELSE /\ callerResults' = Append(callerResults,
                    ResErr("General: Error sending request for next batch"))
            /\ UNCHANGED <<request_q, cpc>>
    /\ UNCHANGED <<aggVars, pipeVars, readerVars, callerVars, openFails, wpc, response_q,
                   readerResults>>

\* a recv that keeps waiting on an empty channel whose sender is gone
ScanNextRecv_IgnoresDisconnect ==
    /\ cpc = "waiting"
    /\ response_q # <<>>
    /\ callerResults' = Append(callerResults, Head(response_q))
    /\ response_q' = Tail(response_q)
    /\ cpc' = "idle"
    /\ UNCHANGED <<aggVars, pipeVars, readerVars, callerVars, openFails, wpc, request_q,
                   readerResults>>

\* ParquetScanPartition::next, second half: self.response_rx.recv()
ScanNextRecv ==
    /\ cpc = "waiting"
    /\ IF response_q # <<>>
       THEN /\ callerResults' = Append(callerResults, Head(response_q))
            /\ response_q' = Tail(response_q)
       ELSE /\ ~WorkerEndsAlive
            /\ callerResults' = Append(callerResults,
                    ResErr("General: Error receiving batch"))
            /\ UNCHANGED response_q
    /\ cpc' = "idle"
    /\ UNCHANGED <<aggVars, pipeVars, readerVars, callerVars, openFails, wpc, request_q,
                   readerResults>>

\* the partition is dropped between two calls of next
ScanDrop ==
    /\ cpc = "idle"
    /\ cpc' = "dropped"
    /\ UNCHANGED <<aggVars, pipeVars, readerVars, callerVars, openFails, wpc, request_q,
                   response_q, callerResults, readerResults>>

NextScan ==
    \/ WorkerOpenOk
    \/ WorkerOpenErr
    \/ WorkerRecv
    \/ WorkerRecvClosed
    \/ WorkerServe
    \/ WorkerExit
    \/ ScanNextSend
    \/ ScanNextRecv
    \/ ScanDrop

SpecScan == InitScan /\ [][NextScan]_vars

(***************************************************************************)
(* The same wrapper with the scheduling of its two threads: a thread that  *)
(* can take a step eventually takes it.  The worker is a spawned OS        *)
(* thread; the caller is inside a blocking recv.  Nothing obliges the      *)
(* caller to call next again or to drop the partition.  Termination does   *)
(* not depend on the content of the file, so the files here have one row   *)
(* group, or none (the reader then returns an error), and are read through *)
(* their first column.                                                     *)
(***************************************************************************)
InitScanLive ==
    /\ numRows \in {<<>>} \cup {<<n>> : n \in 1..MaxRows}
    /\ nullRows = {}
    /\ batch_size \in 1..MaxBatchSize
    /\ projection = <<1>>
    /\ row_group_index = 0
    /\ current_row_group = 0
    /\ column_readers = <<>>
    /\ readers_row_group = 0
    /\ InitCaller
    /\ openFails \in BOOLEAN
    /\ wpc = "open"
    /\ cpc = "idle"
    /\ request_q = 0
    /\ response_q = <<>>
    /\ callerResults = <<>>
    /\ readerResults = <<>>
    /\ NoAgg

ScanFairness ==
    /\ WF_vars(WorkerOpenOk)
    /\ WF_vars(WorkerOpenErr)
    /\ WF_vars(WorkerRecv)
    /\ WF_vars(WorkerRecvClosed)
    /\ WF_vars(WorkerServe)
    /\ WF_vars(WorkerExit)
    /\ WF_vars(ScanNextRecv)

SpecScanLive == InitScanLive /\ [][NextScan]_vars /\ ScanFairness

(***************************************************************************)
(* The hash-aggregate operator.                                            *)
(*                                                                         *)
(* Its input is a stream of batches with the columns a (the grouping       *)
(* column) and b (the aggregated column), as in tests::some_data; in Final *)
(* mode the input has the schema of the Partial output.  A column is       *)
(* [data_type, cells]; a cell is [null, v], where v of a null cell is the  *)
(* content of its value slot.  A column name is a tuple, so that the state *)
(* field names can be built from the name of their aggregate.              *)
(***************************************************************************)
MaxKey == 1
MaxValue == 2
MaxAggRows == 2
MaxInputBatches == 2
MaxPolls == 3

KeyValues == 0..MaxKey
Values == 1..MaxValue

NullSlot(v) == [null |-> TRUE, v |-> v]

\* the aggregate of tests::aggregate: Avg::new(col("b"), "AVG(b)", Float64)
\* `fails` names the one call of the aggregate or of its accumulators that
\* returns Err, if any: the methods of AggregateExpr and Accumulator return
\* Result
AvgB == [fun |-> "AVG", arg |-> <<"b">>, name |-> "AVG(b)", data_type |-> "Float64",
         fails |-> "none"]

AccumulatorFaults ==
    {"none", "create_accumulator", "state_fields", "update_batch",
     "merge_batch", "state", "evaluate"}

\* AVG over a column the table does not have: the column expression fails
\* to evaluate on every batch of the table
AvgC == [AvgB EXCEPT !.arg = <<"c">>]

\* the aggregates: AVG(b) with at most one failing call, and AvgC
Aggregates == {[AvgB EXCEPT !.fails = f] : f \in AccumulatorFaults} \cup {AvgC}

\* the group expressions of HashAggregateExec: (expression, name) pairs
GroupByA == <<[expr |-> <<"a">>, name |-> <<"a">>]>>

(***************************************************************************)
(* The Avg aggregate and its accumulator (expressions.rs): the state is    *)
(* [count: UInt64, sum: Float64]; nulls are skipped; the sum of no value   *)
(* is null; evaluate is sum / count, kept as the fraction [num, den].      *)
(***************************************************************************)
state_fields(agg) ==
    << [name |-> <<agg.name, "count">>, data_type |-> "UInt64", nullable |-> TRUE],
       [name |-> <<agg.name, "sum">>,   data_type |-> "Float64", nullable |-> TRUE] >>

\* AggregateExpr::field
field(agg) == [name |-> <<agg.name>>, data_type |-> agg.data_type, nullable |-> TRUE]

\* AggregateExpr::expressions
expressions(agg) == <<agg.arg>>

\* AggregateExpr::create_accumulator
create_accumulator(agg) ==
    [count |-> 0, sum |-> NullSlot(0), fails |-> agg.fails]

RECURSIVE SumCells(_)
\* sum::sum_batch / compute::sum: the sum of the non-null cells, null if none
SumCells(cells) ==
    IF cells = <<>> THEN NullSlot(0)
    ELSE LET rest == SumCells(Tail(cells))
             c    == Head(cells)
         IN  IF c.null THEN rest
             ELSE IF rest.null THEN ValueCell(c.v)
             ELSE ValueCell(c.v + rest.v)

\* sum::sum of two scalars
SumScalars(x, y) == SumCells(<<x, y>>)

NonNullCount(cells) == Cardinality({i \in 1..Len(cells) : ~cells[i].null})

\* Accumulator::update_batch
update_batch(acc, values) ==
    [acc EXCEPT !.count = acc.count + NonNullCount(values[1].cells),
                !.sum   = SumScalars(acc.sum, SumCells(values[1].cells))]

\* Accumulator::merge_batch: counts are summed, sums are summed
merge_batch(acc, states) ==
    LET counts == SumCells(states[1].cells)
    IN  [acc EXCEPT !.count = acc.count + (IF counts.null THEN 0 ELSE counts.v),
                    !.sum   = SumScalars(acc.sum, SumCells(states[2].cells))]

\* Accumulator::state
state(acc) ==
    << [data_type |-> "UInt64", cell |-> ValueCell(acc.count)],
       [data_type |-> "Float64", cell |-> acc.sum] >>

\* Accumulator::evaluate
evaluate_acc(acc) ==
    [data_type |-> "Float64",
     cell |-> IF acc.sum.null THEN NullSlot(0)
              ELSE ValueCell([num |-> acc.sum.v, den |-> acc.count])]

\* ScalarValue::to_array: a one-element array
to_array(scalar) == [data_type |-> scalar.data_type, cells |-> <<scalar.cell>>]

(***************************************************************************)
(* Schemas.                                                                *)
(***************************************************************************)
IndexOf(fields, name) ==
    IF \E i \in 1..Len(fields) : fields[i].name = name
    THEN CHOOSE i \in 1..Len(fields) :
            /\ fields[i].name = name
            /\ \A j \in 1..(i - 1) : fields[j].name # name
    ELSE 0

\* a create_schema that puts the fields of the aggregates before the group
\* fields
create_schema_AggregatesFirst(input_schema, g_expr, a_expr, m) ==
    (IF m = "Partial"
     THEN Concat([j \in 1..Len(a_expr) |-> state_fields(a_expr[j])])
     ELSE [j \in 1..Len(a_expr) |-> field(a_expr[j])])
    \o [i \in 1..Len(g_expr) |->
          [name |-> g_expr[i].name,
           data_type |-> input_schema[IndexOf(input_schema, g_expr[i].expr)].data_type,
           nullable |-> input_schema[IndexOf(input_schema, g_expr[i].expr)].nullable]]

\* create_schema: the group fields, then the state fields (Partial) or the
\* value fields (Final) of the aggregates
create_schema(input_schema, g_expr, a_expr, m) ==
    [i \in 1..Len(g_expr) |->
        [name |-> g_expr[i].name,
         data_type |-> input_schema[IndexOf(input_schema, g_expr[i].expr)].data_type,
         nullable |-> input_schema[IndexOf(input_schema, g_expr[i].expr)].nullable]]
    \o (IF m = "Partial"
        THEN Concat([j \in 1..Len(a_expr) |-> state_fields(a_expr[j])])
        ELSE [j \in 1..Len(a_expr) |-> field(a_expr[j])])

\* the schema of the batches of tests::some_data, with the type of a
TableSchema(t) ==
    << [name |-> <<"a">>, data_type |-> t, nullable |-> TRUE],
       [name |-> <<"b">>, data_type |-> "Float64", nullable |-> TRUE] >>

(***************************************************************************)
(* Expression evaluation.  The expressions are column references           *)
(* (expressions::Column): the first column of the batch with the name.     *)
(***************************************************************************)
\* evaluate: every expression against the batch; an unknown column fails
evaluate(expr, batch) ==
    IF \A i \in 1..Len(expr) : IndexOf(batch.schema, expr[i]) > 0
    THEN [ok |-> TRUE,
          arrays |-> [i \in 1..Len(expr) |->
                         batch.columns[IndexOf(batch.schema, expr[i])]]]
    ELSE [ok |-> FALSE, arrays |-> <<>>]

\* evaluate_many
evaluate_many(expr, batch) ==
    IF \A j \in 1..Len(expr) : evaluate(expr[j], batch).ok
    THEN [ok |-> TRUE,
          arrays |-> [j \in 1..Len(expr) |-> evaluate(expr[j], batch).arrays]]
    ELSE [ok |-> FALSE, arrays |-> <<>>]

\* merge_expressions: one column reference per state field, by name
merge_expressions(agg) ==
    [k \in 1..Len(state_fields(agg)) |-> state_fields(agg)[k].name]

\* aggregate_expressions
aggregate_expressions(a_expr, m) ==
    IF m = "Partial"
    THEN [j \in 1..Len(a_expr) |-> expressions(a_expr[j])]
    ELSE [j \in 1..Len(a_expr) |-> merge_expressions(a_expr[j])]

\* create_accumulators
create_accumulators(a_expr) ==
    [j \in 1..Len(a_expr) |-> create_accumulator(a_expr[j])]

\* a call `call` of one of the aggregates returns Err
ExprFails(a_expr, call) == \E j \in 1..Len(a_expr) : a_expr[j].fails = call

\* a call `call` of one of the accumulators of a set returns Err
AccFails(accumulator_set, call) ==
    \E j \in 1..Len(accumulator_set) : accumulator_set[j].fails = call

GroupByTypes ==
    {"UInt8", "UInt16", "UInt32", "UInt64", "Int8", "Int16", "Int32", "Int64",
     "Utf8"}

\* create_key that reads the first row whatever `row` is
create_key_FirstRow(group_by_keys, row) ==
    IF \A i \in 1..Len(group_by_keys) : group_by_keys[i].data_type \in GroupByTypes
    THEN [ok |-> TRUE,
          key |-> [i \in 1..Len(group_by_keys) |->
                      [tag |-> group_by_keys[i].data_type,
                       v   |-> group_by_keys[i].cells[1].v]]]
    ELSE [ok |-> FALSE, key |-> <<>>]

\* a create_key without the arm `_ =>`: a key of any type is built
create_key_AnyType(group_by_keys, row) ==
    [ok |-> TRUE,
     key |-> [i \in 1..Len(group_by_keys) |->
                 [tag |-> group_by_keys[i].data_type,
                  v   |-> group_by_keys[i].cells[row].v]]]

\* create_key: the cell at `row` of every grouping column, read with
\* array.value(row), tagged with the type of its column
create_key(group_by_keys, row) ==
    IF \A i \in 1..Len(group_by_keys) : group_by_keys[i].data_type \in GroupByTypes
    THEN [ok |-> TRUE,
          key |-> [i \in 1..Len(group_by_keys) |->
                      [tag |-> group_by_keys[i].data_type,
                       v   |-> group_by_keys[i].cells[row].v]]]
    ELSE [ok |-> FALSE, key |-> <<>>]

\* compute::take: the cells at the given indices, in their order
take(array, indices) ==
    [data_type |-> array.data_type,
     cells |-> [k \in 1..Len(indices) |-> array.cells[indices[k]]]]

num_rows(batch) ==
    IF batch.columns = <<>> THEN 0 ELSE Len(batch.columns[1].cells)

RECURSIVE RowLoop(_, _, _, _, _)
\* the loop `for row in 0..batch.num_rows()` of group_aggregate_batch
RowLoop(group_values, a_expr, row, n, accs) ==
    IF row > n THEN [ok |-> TRUE, accs |-> accs]
    ELSE LET k == create_key(group_values, row)
         IN  IF ~k.ok THEN [ok |-> FALSE, accs |-> accs]
             ELSE IF k.key \in DOMAIN accs
             THEN RowLoop(group_values, a_expr, row + 1, n,
                      [accs EXCEPT ![k.key].indices = Append(@, row)])
             ELSE IF ExprFails(a_expr, "create_accumulator")
             THEN [ok |-> FALSE, accs |-> accs]
             ELSE RowLoop(group_values, a_expr, row + 1, n,
                      [x \in DOMAIN accs \cup {k.key} |->
                          IF x = k.key
                          THEN [accumulator_set |-> create_accumulators(a_expr),
                                indices |-> <<row>>]
                          ELSE accs[x]])

\* an entry update that calls update_batch in both modes
UpdateEntry_AlwaysUpdate(m, entry, aggr_input_values) ==
    [accumulator_set |->
        [j \in 1..Len(entry.accumulator_set) |->
            LET values == [k \in 1..Len(aggr_input_values[j]) |->
                              take(aggr_input_values[j][k], entry.indices)]
            IN  update_batch(entry.accumulator_set[j], values)],
     indices |-> <<>>]

\* an entry update that takes only the first row of the entry's indices
UpdateEntry_FirstIndexOnly(m, entry, aggr_input_values) ==
    [accumulator_set |->
        [j \in 1..Len(entry.accumulator_set) |->
            LET values == [k \in 1..Len(aggr_input_values[j]) |->
                              take(aggr_input_values[j][k],
                                   IF entry.indices = <<>> THEN <<>>
                                   ELSE <<Head(entry.indices)>>)]
            IN  IF m = "Partial"
                THEN update_batch(entry.accumulator_set[j], values)
                ELSE merge_batch(entry.accumulator_set[j], values)],
     indices |-> <<>>]

\* an entry update without step 2.5: the indices are not cleared
UpdateEntry_KeepsIndices(m, entry, aggr_input_values) ==
    [accumulator_set |->
        [j \in 1..Len(entry.accumulator_set) |->
            LET values == [k \in 1..Len(aggr_input_values[j]) |->
                              take(aggr_input_values[j][k], entry.indices)]
            IN  IF m = "Partial"
                THEN update_batch(entry.accumulator_set[j], values)
                ELSE merge_batch(entry.accumulator_set[j], values)],
     indices |-> entry.indices]

\* an entry update that starts from fresh accumulators
UpdateEntry_FreshAccumulators(m, entry, aggr_input_values) ==
    [accumulator_set |->
        [j \in 1..Len(entry.accumulator_set) |->
            LET values == [k \in 1..Len(aggr_input_values[j]) |->
                              take(aggr_input_values[j][k], entry.indices)]
                fresh  == [entry.accumulator_set[j] EXCEPT
                              !.count = 0, !.sum = NullSlot(0)]
            IN  IF m = "Partial"
                THEN update_batch(fresh, values)
                ELSE merge_batch(fresh, values)],
     indices |-> <<>>]

\* steps 2.1 to 2.5 of group_aggregate_batch for one entry of the map
UpdateEntry(m, entry, aggr_input_values) ==
    [accumulator_set |->
        [j \in 1..Len(entry.accumulator_set) |->
            LET values == [k \in 1..Len(aggr_input_values[j]) |->
                              take(aggr_input_values[j][k], entry.indices)]
            IN  IF m = "Partial"
                THEN update_batch(entry.accumulator_set[j], values)
                ELSE merge_batch(entry.accumulator_set[j], values)],
     indices |-> <<>>]

(***************************************************************************)
(* group_aggregate_batch                                                   *)
(***************************************************************************)
group_aggregate_batch(m, g_expr, a_expr, batch, accs, aggregate_exprs) ==
    LET group_values      == evaluate(g_expr, batch)
        aggr_input_values == evaluate_many(aggregate_exprs, batch)
    IN  IF ~group_values.ok \/ ~aggr_input_values.ok
        THEN [ok |-> FALSE, accs |-> accs]
        ELSE LET l == RowLoop(group_values.arrays, a_expr, 1,
                              num_rows(batch), accs)
             IN  IF ~l.ok THEN l
                 ELSE IF \E x \in DOMAIN l.accs :
                            AccFails(l.accs[x].accumulator_set,
                                     IF m = "Partial" THEN "update_batch"
                                     ELSE "merge_batch")
                 THEN [ok |-> FALSE, accs |-> accs]
                 ELSE [ok |-> TRUE,
                       accs |->
                          [x \in DOMAIN l.accs |->
                              UpdateEntry(m, l.accs[x],
                                          aggr_input_values.arrays)]]

\* an aggregate_batch that keeps an accumulator whose update returned Err
\* as it is and goes on
aggregate_batch_SkipsFailedUpdate(m, batch, accs, exprs) ==
    IF \A j \in 1..Len(accs) : evaluate(exprs[j], batch).ok
    THEN [ok |-> TRUE,
          accs |->
             [j \in 1..Len(accs) |->
                 IF AccFails(accs, IF m = "Partial" THEN "update_batch"
                                   ELSE "merge_batch")
                 THEN accs[j]
                 ELSE IF m = "Partial"
                 THEN update_batch(accs[j], evaluate(exprs[j], batch).arrays)
                 ELSE merge_batch(accs[j], evaluate(exprs[j], batch).arrays)]]
    ELSE [ok |-> FALSE, accs |-> accs]

\* an aggregate_batch that calls update_batch in both modes
aggregate_batch_AlwaysUpdate(m, batch, accs, exprs) ==
    IF /\ \A j \in 1..Len(accs) : evaluate(exprs[j], batch).ok
       /\ ~AccFails(accs, "update_batch")
    THEN [ok |-> TRUE,
          accs |->
             [j \in 1..Len(accs) |->
                 update_batch(accs[j], evaluate(exprs[j], batch).arrays)]]
    ELSE [ok |-> FALSE, accs |-> accs]

(***************************************************************************)
(* aggregate_batch (no grouping): one accumulator set, no map              *)
(***************************************************************************)
aggregate_batch(m, batch, accs, exprs) ==
    IF /\ \A j \in 1..Len(accs) : evaluate(exprs[j], batch).ok
       /\ ~AccFails(accs, IF m = "Partial" THEN "update_batch" ELSE "merge_batch")
    THEN [ok |-> TRUE,
          accs |->
             [j \in 1..Len(accs) |->
                 IF m = "Partial"
                 THEN update_batch(accs[j], evaluate(exprs[j], batch).arrays)
                 ELSE merge_batch(accs[j], evaluate(exprs[j], batch).arrays)]]
    ELSE [ok |-> FALSE, accs |-> accs]

(***************************************************************************)
(* finalize_aggregation: the states (Partial) or the values (Final) of an  *)
(* accumulator set, as one-element arrays                                  *)
(***************************************************************************)
finalize_aggregation(accs, m) ==
    IF m = "Partial"
    THEN Concat([j \in 1..Len(accs) |->
                    [k \in 1..Len(state(accs[j])) |->
                        to_array(state(accs[j])[k])]])
    ELSE [j \in 1..Len(accs) |-> to_array(evaluate_acc(accs[j]))]

\* concatenate: column c of the result is the concatenation of column c of
\* every element of arrays
concatenate(arrays) ==
    [c \in 1..Len(arrays[1]) |->
        [data_type |-> arrays[1][c].data_type,
         cells |-> Concat([e \in 1..Len(arrays) |-> arrays[e][c].cells])]]

\* common::create_batch_empty: a batch of zero rows with the schema
create_batch_empty(fields) ==
    ResSome(fields, [i \in 1..Len(fields) |->
                        [data_type |-> fields[i].data_type, cells |-> <<>>]])

(***************************************************************************)
(* create_batch_from_map.  `order` is the iteration order of the hash map: *)
(* a sequence holding every key of the map once.                           *)
(***************************************************************************)
create_batch_from_map(m, accs, num_group_expr, output_schema, order) ==
    LET arrays ==
          [e \in 1..Len(order) |->
              [i \in 1..num_group_expr |->
                  [data_type |-> order[e][i].tag,
                   cells |-> <<ValueCell(order[e][i].v)>>]]
              \o finalize_aggregation(accs[order[e]].accumulator_set, m)]
    IN  IF \E e \in 1..Len(order) :
              AccFails(accs[order[e]].accumulator_set,
                       IF m = "Partial" THEN "state" ELSE "evaluate")
        THEN ResErr("External")
        ELSE IF Len(arrays) # 0
        THEN RecordBatch_try_new(output_schema, concatenate(arrays))
        ELSE create_batch_empty(output_schema)

\* the sequences that hold every element of S exactly once
Orders(S) ==
    {o \in [1..Cardinality(S) -> S] : \A x \in S : \E i \in DOMAIN o : o[i] = x}

(***************************************************************************)
(* One execution of a HashAggregateExec: execute(partition) builds a       *)
(* GroupedHashAggregateStream, or a HashAggregateStream when there is no   *)
(* group expression, and a consumer polls it.                              *)
(***************************************************************************)
MaxPending == 1

\* the expressions of the stream: execute drops the names
StreamGroupExpr == [i \in 1..Len(group_expr) |-> group_expr[i].expr]

PartialSchema == create_schema(TableSchema(a_type), group_expr, aggr_expr, "Partial")

\* the schema of the input of the operator: the table, or the Partial output
InputSchema == IF mode = "Partial" THEN TableSchema(a_type) ELSE PartialSchema

\* HashAggregateExec::try_new: self.schema
OutputSchema == create_schema(InputSchema, group_expr, aggr_expr, mode)

\* the batch with the given fields and rows (a row is a tuple of cells)
BatchOf(fields, rows) ==
    ResSome(fields, [i \in 1..Len(fields) |->
                        [data_type |-> fields[i].data_type,
                         cells |-> [r \in 1..Len(rows) |-> rows[r][i]]]])

KeyCells(withNulls) ==
    {ValueCell(k) : k \in KeyValues}
        \cup (IF withNulls THEN {NullSlot(k) : k \in KeyValues} ELSE {})
ValueCells == {ValueCell(v) : v \in Values} \cup {NullSlot(0)}

\* a serialized Avg state: no value seen, or a count and a sum
StateCells ==
    {<<ValueCell(0), NullSlot(0)>>}
        \cup {<<ValueCell(c), ValueCell(v)>> : c \in 1..2, v \in Values}

\* the rows of a batch of the table
TableRows(withNulls) == KeyCells(withNulls) \X ValueCells

\* the rows of a batch of Partial output: the group cells, then the state
PartialRows ==
    IF group_expr = <<>> THEN StateCells
    ELSE {<<k>> \o st : k \in KeyCells(FALSE), st \in StateCells}

InputBatches ==
    IF mode = "Partial"
    THEN {BatchOf(InputSchema, rows) : rows \in SeqsUpTo(TableRows(TRUE), MaxAggRows)}
    ELSE {BatchOf(InputSchema, rows) : rows \in SeqsUpTo(PartialRows, MaxAggRows)}

\* the grouping cells of the rows of a batch, as the tuples of their values
BatchKeys(batch) ==
    LET g == evaluate(StreamGroupExpr, batch).arrays
    IN  {[i \in 1..Len(g) |-> g[i].cells[r].v] : r \in 1..num_rows(batch)}

InitAgg ==
    /\ mode \in {"Partial", "Final"}
    /\ group_expr \in {<<>>, GroupByA}
    /\ aggr_expr \in {<<agg>> : agg \in Aggregates}
    /\ a_type \in {"UInt32", "Float64"}
    /\ finished = FALSE
    /\ apc = "idle"
    /\ accumulators = <<>>
    /\ polls = 0
    /\ items = <<>>
    /\ pendings = 0
    /\ nInput = 0
    /\ upstream = "open"
    /\ seenKeys = {}
    /\ stage = 0
    /\ merged = <<>>
    /\ ref = <<>>
    /\ NoReader
    /\ InitCaller
    /\ NoScan

\* the fold of one input batch by the closure given to try_fold
Fold(batch) ==
    IF group_expr = <<>>
    THEN aggregate_batch(mode, batch, accumulators,
                         aggregate_expressions(aggr_expr, mode))
    ELSE group_aggregate_batch(mode, StreamGroupExpr, aggr_expr, batch,
                               accumulators,
                               aggregate_expressions(aggr_expr, mode))

\* the batch built when try_fold completes; order: map iteration order
Finish(order) ==
    IF group_expr = <<>>
    THEN IF AccFails(accumulators, IF mode = "Partial" THEN "state" ELSE "evaluate")
         THEN ResErr("External")
         ELSE RecordBatch_try_new(OutputSchema,
                                  finalize_aggregation(accumulators, mode))
    ELSE create_batch_from_map(mode, accumulators, Len(group_expr),
                               OutputSchema, order)

FinishOrders ==
    IF group_expr = <<>> THEN {<<>>} ELSE Orders(DOMAIN accumulators)

\* a poll_next without the test of `finished`: every poll starts a fold
PollNext_IgnoresFinished ==
    /\ apc = "idle"
    /\ polls < MaxPolls
    /\ polls' = polls + 1
    /\ finished' = TRUE
    /\ apc' = "folding"
    /\ accumulators' = IF group_expr = <<>>
                       THEN create_accumulators(aggr_expr)
                       ELSE <<>>
    /\ UNCHANGED items
    /\ UNCHANGED <<mode, group_expr, aggr_expr, a_type, pendings, nInput,
                   upstream, seenKeys>>
    /\ UNCHANGED <<readerVars, callerVars, scanVars, pipeVars>>

(***************************************************************************)
(* poll_next, up to its poll of the fold future: a finished stream returns *)
(* Ready(None); otherwise finished is set and, unless create_accumulators  *)
(* (stream without grouping) or aggregate_expressions returns Err, which   *)
(* is returned at once, a new fold is started.                             *)
(***************************************************************************)
PollNext ==
    /\ apc = "idle"
    /\ polls < MaxPolls
    /\ polls' = polls + 1
    /\ IF finished
       THEN /\ items' = Append(items, ResNone)
            /\ UNCHANGED <<finished, apc, accumulators>>
       ELSE IF \/ group_expr = <<>> /\ ExprFails(aggr_expr, "create_accumulator")
               \/ mode = "Final" /\ ExprFails(aggr_expr, "state_fields")
       THEN /\ finished' = TRUE
            /\ items' = Append(items, ResErr("External"))
            /\ UNCHANGED <<apc, accumulators>>
       ELSE /\ finished' = TRUE
            /\ apc' = "folding"
            /\ accumulators' = IF group_expr = <<>>
                               THEN create_accumulators(aggr_expr)
                               ELSE <<>>
            /\ UNCHANGED items
    /\ UNCHANGED <<mode, group_expr, aggr_expr, a_type, pendings, nInput,
                   upstream, seenKeys>>
    /\ UNCHANGED <<readerVars, callerVars, scanVars, pipeVars>>

\* try_fold polls the input: Ready(Some(Ok(batch))); the batch is folded,
\* and an error of the fold is the item poll_next returns
InputBatch ==
    /\ apc = "folding"
    /\ upstream = "open"
    /\ nInput < MaxInputBatches
    /\ \E batch \in InputBatches :
         LET f == Fold(batch)
         IN  /\ nInput' = nInput + 1
             /\ seenKeys' = seenKeys \cup BatchKeys(batch)
             /\ IF f.ok
                THEN /\ accumulators' = f.accs
                     /\ UNCHANGED <<apc, items>>
                ELSE /\ accumulators' = <<>>
                     /\ apc' = "idle"
                     /\ items' = Append(items, ResErr("Internal"))
    /\ UNCHANGED <<mode, group_expr, aggr_expr, a_type, finished, polls,
                   pendings, upstream>>
    /\ UNCHANGED <<readerVars, callerVars, scanVars, pipeVars>>

\* try_fold polls the input: Poll::Pending.  poll_next returns Pending and
\* the fold future, a local of poll_next, is dropped with its accumulators
InputPending ==
    /\ apc = "folding"
    /\ upstream = "open"
    /\ pendings < MaxPending
    /\ pendings' = pendings + 1
    /\ apc' = "idle"
    /\ accumulators' = <<>>
    /\ UNCHANGED <<mode, group_expr, aggr_expr, a_type, finished, polls, items,
                   nInput, upstream, seenKeys>>
    /\ UNCHANGED <<readerVars, callerVars, scanVars, pipeVars>>

\* try_fold polls the input: Ready(None).  The output batch is built and
\* returned
InputEnd ==
    /\ apc = "folding"
    /\ upstream = "open"
    /\ upstream' = "ended"
    /\ \E order \in FinishOrders : items' = Append(items, Finish(order))
    /\ apc' = "idle"
    /\ accumulators' = <<>>
    /\ UNCHANGED <<mode, group_expr, aggr_expr, a_type, finished, polls,
                   pendings, nInput, seenKeys>>
    /\ UNCHANGED <<readerVars, callerVars, scanVars, pipeVars>>

\* try_fold polls the input: Ready(Some(Err(e))).  The error is returned
InputError ==
    /\ apc = "folding"
    /\ upstream = "open"
    /\ upstream' = "error"
    /\ items' = Append(items, ResErr("upstream"))
    /\ apc' = "idle"
    /\ accumulators' = <<>>
    /\ UNCHANGED <<mode, group_expr, aggr_expr, a_type, finished, polls,
                   pendings, nInput, seenKeys>>
    /\ UNCHANGED <<readerVars, callerVars, scanVars, pipeVars>>

NextAgg ==
    \/ PollNext
    \/ InputBatch
    \/ InputPending
    \/ InputEnd
    \/ InputError

SpecAgg == InitAgg /\ [][NextAgg]_vars

(***************************************************************************)
(* The two-phase pipeline of tests::aggregate: a Partial aggregate on each *)
(* partition of the table, the Partial output batches collected in         *)
(* partition order (MergeExec), and a Final aggregate over them.  The      *)
(* partitions share nothing, so they are run one after the other; `mode`,  *)
(* `finished` and the fold state then belong to the operator and stream of *)
(* the running stage.  The table streams are in-memory streams: they are   *)
(* always ready and yield no error, and the column a has no null.          *)
(***************************************************************************)
NumPartitions == 2

FinalStage == NumPartitions + 1

RECURSIVE SumOver(_, _)
SumOver(S, f) ==
    IF S = {} THEN 0
    ELSE LET x == CHOOSE y \in S : TRUE IN f[x] + SumOver(S \ {x}, f)

\* the single-stage aggregation, row by row: per group, the number of
\* non-null values of b, their sum, and the number of rows
RefAdd(r, batch) ==
    LET g    == evaluate(StreamGroupExpr, batch).arrays
        b    == batch.columns[IndexOf(batch.schema, <<"b">>)].cells
        key(row) == [i \in 1..Len(g) |-> g[i].cells[row].v]
        vals == [row \in 1..Len(b) |-> b[row].v]
    IN  [k \in DOMAIN r \cup BatchKeys(batch) |->
            LET old  == IF k \in DOMAIN r THEN r[k]
                        ELSE [count |-> 0, sum |-> 0, rows |-> 0]
                mine == {row \in 1..Len(b) : key(row) = k /\ ~b[row].null}
            IN  [count |-> old.count + Cardinality(mine),
                 sum   |-> old.sum + SumOver(mine, vals),
                 rows  |-> old.rows +
                           Cardinality({row \in 1..Len(b) : key(row) = k})]]

\* AVG of a group of the single-stage aggregation: sum / count, null when
\* the group has no value
RefAvg(k) ==
    IF ref[k].count = 0 THEN NullSlot(0)
    ELSE ValueCell([num |-> ref[k].sum, den |-> ref[k].count])

TableBatches ==
    {BatchOf(TableSchema(a_type), rows) :
        rows \in SeqsUpTo(TableRows(FALSE), MaxAggRows)}

InitPipeline ==
    /\ mode = "Partial"
    /\ group_expr \in {<<>>, GroupByA}
    /\ aggr_expr = <<AvgB>>
    /\ a_type = "UInt32"
    /\ finished = FALSE
    /\ apc = "idle"
    /\ accumulators = <<>>
    /\ polls = 0
    /\ items = <<>>
    /\ pendings = 0
    /\ nInput = 0
    /\ upstream = "open"
    /\ seenKeys = {}
    /\ stage = 1
    /\ merged = <<>>
    /\ ref = [k \in (IF group_expr = <<>> THEN {<<>>} ELSE {}) |->
                 [count |-> 0, sum |-> 0, rows |-> 0]]
    /\ NoReader
    /\ InitCaller
    /\ NoScan

\* the stream of a Partial stage is polled for the first time
StagePoll ==
    /\ stage \in 1..FinalStage
    /\ PollNext

\* a Partial stage: the table stream of the partition yields a batch
PartitionBatch ==
    /\ stage \in 1..NumPartitions
    /\ apc = "folding"
    /\ nInput < MaxInputBatches
    /\ \E batch \in TableBatches :
         /\ accumulators' = Fold(batch).accs
         /\ ref' = RefAdd(ref, batch)
         /\ seenKeys' = seenKeys \cup BatchKeys(batch)
    /\ nInput' = nInput + 1
    /\ UNCHANGED <<mode, group_expr, aggr_expr, a_type, finished, apc, polls,
                   items, pendings, upstream, stage, merged>>
    /\ UNCHANGED <<readerVars, callerVars, scanVars>>

\* a Partial stage: the table stream ends, the stage emits its batch, and
\* the next stage is set up with a new operator and stream
PartitionEnd ==
    /\ stage \in 1..NumPartitions
    /\ apc = "folding"
    /\ \E order \in FinishOrders : merged' = Append(merged, Finish(order))
    /\ stage' = stage + 1
    /\ mode' = IF stage = NumPartitions THEN "Final" ELSE "Partial"
    /\ finished' = FALSE
    /\ apc' = "idle"
    /\ accumulators' = <<>>
    /\ polls' = 0
    /\ nInput' = 0
    /\ UNCHANGED <<group_expr, aggr_expr, a_type, items, pendings, upstream,
                   seenKeys, ref>>
    /\ UNCHANGED <<readerVars, callerVars, scanVars>>

\* the Final stage: the merged stream yields the next Partial output batch
MergedBatch ==
    /\ stage = FinalStage
    /\ apc = "folding"
    /\ merged # <<>>
    /\ merged' = Tail(merged)
    /\ LET f == Fold(Head(merged))
       IN  IF f.ok
           THEN /\ accumulators' = f.accs
                /\ UNCHANGED <<apc, items>>
           ELSE /\ accumulators' = <<>>
                /\ apc' = "idle"
                /\ items' = Append(items, ResErr("Internal"))
    /\ UNCHANGED <<mode, group_expr, aggr_expr, a_type, finished, polls,
                   pendings, nInput, upstream, seenKeys, stage, ref>>
    /\ UNCHANGED <<readerVars, callerVars, scanVars>>

\* the Final stage: the merged stream ends and the result is emitted
MergedEnd ==
    /\ stage = FinalStage
    /\ apc = "folding"
    /\ merged = <<>>
    /\ upstream = "open"
    /\ upstream' = "ended"
    /\ \E order \in FinishOrders : items' = Append(items, Finish(order))
    /\ apc' = "idle"
    /\ accumulators' = <<>>
    /\ UNCHANGED <<mode, group_expr, aggr_expr, a_type, finished, polls,
                   pendings, nInput, seenKeys, stage, merged, ref>>
    /\ UNCHANGED <<readerVars, callerVars, scanVars>>

NextPipeline ==
    \/ StagePoll
    \/ PartitionBatch
    \/ PartitionEnd
    \/ MergedBatch
    \/ MergedEnd

SpecPipeline == InitPipeline /\ [][NextPipeline]_vars

(***************************************************************************)
(* The pipeline with two aggregates, AVG(b) and an AVG over the column a   *)
(* that the plan names "AVG(a)" or, like the first, "AVG(b)"; the names of *)
(* the state fields are made from the name of their aggregate.  The        *)
(* partitions before the last one have empty tables: each has emitted the  *)
(* Partial batch of no input, and the last Partial stage is about to run.  *)
(***************************************************************************)
AvgA == [AvgB EXCEPT !.arg = <<"a">>, !.name = "AVG(a)"]

AvgA_NamedB == [AvgA EXCEPT !.name = AvgB.name]

AggregateLists == {<<AvgB, AvgA>>, <<AvgB, AvgA_NamedB>>}

\* the batch a Partial stage emits when its table stream yields no batch
EmptyPartitionOutput ==
    IF group_expr = <<>>
    THEN RecordBatch_try_new(PartialSchema,
             finalize_aggregation(create_accumulators(aggr_expr), "Partial"))
    ELSE create_batch_from_map("Partial", <<>>, Len(group_expr), PartialSchema, <<>>)

InitMulti ==
    /\ mode = "Partial"
    /\ group_expr \in {<<>>, GroupByA}
    /\ aggr_expr \in AggregateLists
    /\ a_type = "UInt32"
    /\ finished = FALSE
    /\ apc = "idle"
    /\ accumulators = <<>>
    /\ polls = 0
    /\ items = <<>>
    /\ pendings = 0
    /\ nInput = 0
    /\ upstream = "open"
    /\ seenKeys = {}
    /\ stage = NumPartitions
    /\ merged = [p \in 1..(NumPartitions - 1) |-> EmptyPartitionOutput]
    /\ ref = [k \in (IF group_expr = <<>> THEN {<<>>} ELSE {}) |->
                 [count |-> 0, sum |-> 0, rows |-> 0]]
    /\ NoReader
    /\ InitCaller
    /\ NoScan

SpecMulti == InitMulti /\ [][NextPipeline]_vars

(***************************************************************************)
(* The plan methods of a constructed HashAggregateExec: the operator is    *)
(* asked for the distribution it requires of its child, and is rebuilt     *)
(* over new children by with_new_children, whose result takes its place in *)
(* the plan.  A child is its schema: the table with a grouping column of   *)
(* some type, or a table without the grouping column.                      *)
(***************************************************************************)
ChildSchemas ==
    {TableSchema(t) : t \in {"UInt32", "Float64"}}
        \cup { <<[name |-> <<"b">>, data_type |-> "Float64", nullable |-> TRUE]>> }

\* HashAggregateExec::try_new: create_schema fails when a group expression
\* does not resolve against the input schema or state_fields fails
HashAggregateExec_try_new(m, g_expr, a_expr, input_schema) ==
    IF /\ \A i \in 1..Len(g_expr) : IndexOf(input_schema, g_expr[i].expr) > 0
       /\ ~(m = "Partial" /\ ExprFails(a_expr, "state_fields"))
    THEN [kind |-> "Ok", mode |-> m, group_expr |-> g_expr, aggr_expr |-> a_expr,
          input |-> input_schema,
          schema |-> create_schema(input_schema, g_expr, a_expr, m)]
    ELSE [kind |-> "Err"]

\* a with_new_children that builds the new operator in Partial mode
with_new_children_ResetsMode(children) ==
    IF Len(children) = 1
    THEN HashAggregateExec_try_new("Partial", group_expr, aggr_expr, children[1])
    ELSE [kind |-> "Err"]

\* HashAggregateExec::with_new_children
with_new_children(children) ==
    IF Len(children) = 1
    THEN HashAggregateExec_try_new(mode, group_expr, aggr_expr, children[1])
    ELSE [kind |-> "Err"]

\* HashAggregateExec::required_child_distribution
required_child_distribution ==
    IF mode = "Partial" THEN "UnspecifiedDistribution" ELSE "SinglePartition"

InitPlan ==
    /\ mode \in {"Partial", "Final"}
    /\ group_expr \in {<<>>, GroupByA}
    /\ aggr_expr \in {<<agg>> : agg \in Aggregates}
    /\ a_type \in {"UInt32", "Float64"}
    /\ HashAggregateExec_try_new(mode, group_expr, aggr_expr,
                                 TableSchema(a_type)).kind = "Ok"
    /\ distribution = "none"
    /\ new_plan = [kind |-> "none"]
    /\ finished = FALSE
    /\ apc = "none"
    /\ accumulators = <<>>
    /\ polls = 0
    /\ items = <<>>
    /\ pendings = 0
    /\ nInput = 0
    /\ upstream = "none"
    /\ seenKeys = {}
    /\ stage = 0
    /\ merged = <<>>
    /\ ref = <<>>
    /\ NoReader
    /\ calls = 0
    /\ result = ResInit
    /\ delivered = <<>>
    /\ sawNone = FALSE
    /\ NoOpen
    /\ NoConv
    /\ NoScan

\* a call of required_child_distribution
RequiredChildDistribution ==
    /\ distribution' = required_child_distribution
    /\ UNCHANGED <<new_plan, calls, result, delivered, sawNone, openVars, convVars>>
    /\ UNCHANGED <<readerVars, scanVars, aggVars, pipeVars>>

\* a call of with_new_children; the operator it returns replaces this one
WithNewChildren ==
    /\ \E children \in SeqsUpTo(ChildSchemas, 2) :
         \E plan \in {with_new_children(children)} :
           /\ new_plan' = plan
           /\ IF plan.kind = "Ok"
              THEN /\ mode' = plan.mode
                   /\ group_expr' = plan.group_expr
                   /\ aggr_expr' = plan.aggr_expr
                   /\ a_type' = IF IndexOf(plan.input, <<"a">>) > 0
                                 THEN plan.input[IndexOf(plan.input, <<"a">>)].data_type
                                 ELSE a_type
              ELSE UNCHANGED <<mode, group_expr, aggr_expr, a_type>>
    /\ UNCHANGED <<finished, apc, accumulators, polls, items, pendings, nInput,
                   upstream, seenKeys>>
    /\ UNCHANGED <<distribution, calls, result, delivered, sawNone, openVars,
                   convVars>>
    /\ UNCHANGED <<readerVars, scanVars, pipeVars>>

NextPlan ==
    \/ RequiredChildDistribution
    \/ WithNewChildren

SpecPlan == InitPlan /\ [][NextPlan]_vars

(***************************************************************************)
(* Properties of the Parquet reader.                                       *)
(***************************************************************************)

\* the logical value of a stored cell, by the conversion table: INT32 is
\* taken as it is, a byte array is read as UTF-8 text, an INT96 is
\* (julian_day - 2440588) days plus its nanoseconds
LogicalCell(g, r, c) ==
    LET v == StoredValue(g, r, c)
    IN  IF DefLevel(g, r, c) = 0 THEN NullCell
        ELSE CASE FileSchema[c].phys = "INT32" -> ValueCell(v)
               [] FileSchema[c].phys = "BYTE_ARRAY" -> ValueCell([utf8 |-> v])
               [] FileSchema[c].phys = "INT96" ->
                    ValueCell([days |-> v[3] - 2440588, nanos_high |-> v[2],
                               nanos_low |-> v[1]])

\* column c of the file: its cells of all row groups, in row-group order
FileColumn(c) ==
    Concat([g \in 1..Len(numRows) |->
               [r \in 1..numRows[g] |-> LogicalCell(g, r, c)]])

\* column i of the batches returned before the first None, concatenated
DeliveredColumn(i) ==
    Concat([k \in 1..Len(delivered) |-> delivered[k].columns[i].cells])

\* every column reader of the loaded row group is at the end of its chunk
RowGroupFullyRead ==
    current_row_group > 0 /\
        \A i \in 1..Len(column_readers) :
            column_readers[i] = numRows[current_row_group]

\* C1: once next has returned None, the batches returned before it,
\* concatenated, are the rows of the file in row-group order, column for
\* column.
C1_ConcatEqualsFile ==
    sawNone => \A i \in 1..Len(projection) :
                  DeliveredColumn(i) = FileColumn(projection[i])

\* the rows of the row groups before row group g
RECURSIVE RowsBefore(_)
RowsBefore(g) == IF g <= 1 THEN 0 ELSE RowsBefore(g - 1) + numRows[g - 1]

\* the rows of the file
TotalRows == RowsBefore(Len(numRows) + 1)

\* the rows the first column reader has read, those of the row groups
\* before the current one included
Consumed ==
    IF current_row_group = 0 \/ column_readers = <<>> THEN 0
    ELSE RowsBefore(current_row_group) + column_readers[1]

\* the batches returned before the first None are at most as many as the
\* rows consumed, which are at most the rows of the file
BatchesBounded ==
    /\ Len(delivered) <= Consumed
    /\ Consumed <= TotalRows

\* C32: every call of next that returns a batch consumes at least one
\* unread row of the file, and no more rows are consumed than the file
\* has; so at most as many calls as the file has rows return a batch, and
\* the calls return None or an error after finitely many of them
C32_BatchConsumesRow ==
    /\ []BatchesBounded
    /\ [][(calls' = calls + 1 /\ result'.kind = "Some") =>
             Consumed' > Consumed]_vars

\* a file of three row groups, the first without rows, read one row a call:
\* None, then a batch for each of its rows, then None again
C32_Witness ==
    /\ Len(numRows) = MaxRowGroups
    /\ numRows[1] = 0
    /\ batch_size = 1
    /\ Consumed = TotalRows
    /\ TotalRows = 2
    /\ calls = 4
    /\ result.kind = "None"

\* the state of the ParquetFile between two calls of next: row_group_index
\* counts row groups of the file; current_row_group is None until a row
\* group has been loaded; with a row group loaded, load_batch finds one
\* column reader per projection entry, all of the row group loaded last
\* (the row group row_group_index - 1 of the code, which counts from 0)
ReaderInvariant ==
    /\ row_group_index \in 0..num_row_groups
    /\ (current_row_group = 0) <=> (row_group_index = 0)
    /\ current_row_group # 0 =>
          /\ Len(column_readers) = Len(projection)
          /\ readers_row_group = row_group_index

\* C37: the reader invariant holds in every state, and a call of next
\* leaves row_group_index as it is or, when it loads a row group, adds
\* exactly 1 to it
C37_ReaderInvariant ==
    /\ []ReaderInvariant
    /\ [][row_group_index' =
             IF current_row_group' # current_row_group
             THEN row_group_index + 1 ELSE row_group_index]_vars

\* next has returned None with every row group loaded and read
AtEndOfFile ==
    /\ result.kind = "None"
    /\ row_group_index = num_row_groups
    /\ RowGroupFullyRead

\* C36: once next has returned None with every row group loaded and read,
\* the next call returns None again and leaves row_group_index, the
\* current row group and the column readers as they were
C36_EndIsStable ==
    [][(AtEndOfFile /\ calls' = calls + 1) =>
          /\ result' = ResNone
          /\ row_group_index' = row_group_index
          /\ current_row_group' = current_row_group
          /\ column_readers' = column_readers]_vars

\* a file of one row group read in one batch: a batch, None, and None again
C36_Witness ==
    /\ numRows = <<MaxRows>>
    /\ batch_size = MaxRows
    /\ Len(projection) = 2
    /\ calls = 3
    /\ Len(delivered) = 1
    /\ AtEndOfFile

\* C7: next returns None only when every row group has been loaded and the
\* current one is fully read.
C7_NoneOnlyAtEnd ==
    result.kind = "None" =>
        row_group_index = num_row_groups /\ RowGroupFullyRead

\* C8: on a file with zero row groups the first call of next returns None.
C8_EmptyFileNone ==
    (num_row_groups = 0 /\ calls = 1) => result.kind = "None"

\* C9: with an empty projection on a file with a non-empty row group, next
\* yields a batch of zero columns, not end of stream.
C9_EmptyProjectionBatch ==
    (projection = <<>> /\ calls = 1 /\ \E g \in 1..Len(numRows) : numRows[g] > 0)
        => (result.kind = "Some" /\ Len(result.columns) = 0)

\* C10: every batch returned by next has the projected schema, one column
\* per projected index, columns of one common length, and between 1 and
\* batch_size rows.
C10_BatchShape ==
    result.kind = "Some" =>
        /\ result.schema = schema_projection(FileSchema, projection).fields
        /\ Len(result.columns) = Len(projection)
        /\ \A i \in 1..Len(result.columns) :
              /\ Len(result.columns[i].cells) = Len(result.columns[1].cells)
              /\ Len(result.columns[i].cells) >= 1
              /\ Len(result.columns[i].cells) <= batch_size

\* a batch of two different columns and batch_size rows with a null cell
C10_Witness ==
    /\ result.kind = "Some"
    /\ Len(projection) = 2
    /\ projection[1] # projection[2]
    /\ batch_size = 2
    /\ Len(result.columns[1].cells) = batch_size
    /\ \E r \in 1..2 : result.columns[2].cells[r].null

\* the projection argument holds an index past the last field of the schema
OutOfRange(fschema, projOpt) ==
    projOpt.some /\ \E k \in 1..Len(projOpt.p) : projOpt.p[k] > Len(fschema)

\* the projection argument, an absent one read as all columns in file order
Normalized(fschema, projOpt) ==
    IF projOpt.some THEN projOpt.p ELSE [i \in 1..Len(fschema) |-> i]

\* C19: open fails with InvalidColumn iff some projection index is past the
\* last field of the file schema (on a file that can be read at all, and
\* never otherwise); when no index is, open succeeds, the reader's projection
\* is the given one, or all columns in file order when none was given, and
\* the projected schema holds the fields at those indices, in that order,
\* repeated indices included
C19_OpenProjection ==
    opened.kind # "none" =>
        /\ (opened.kind = "Err" /\ opened.err = "InvalidColumn")
              => OutOfRange(file_schema, open_projection)
        /\ file_status = "ok" =>
              IF OutOfRange(file_schema, open_projection)
              THEN opened.kind = "Err" /\ opened.err = "InvalidColumn"
              ELSE \E p \in {Normalized(file_schema, open_projection)} :
                     /\ opened.kind = "Ok"
                     /\ projection = p
                     /\ Len(opened.projection_schema) = Len(p)
                     /\ \A k \in 1..Len(p) :
                            opened.projection_schema[k] = file_schema[p[k]]

\* open has failed with InvalidColumn on a projection of a valid index
\* followed by an index past the last field
C19_Witness ==
    /\ opened.kind = "Err"
    /\ opened.err = "InvalidColumn"
    /\ open_projection.some
    /\ Len(open_projection.p) = MaxProj
    /\ open_projection.p[1] <= Len(file_schema)
    /\ open_projection.p[MaxProj] > Len(file_schema)

\* the projection, all of whose indices are in range, names a LIST or STRUCT
\* field
ReferencesNested(fschema, projOpt) ==
    /\ ~OutOfRange(fschema, projOpt)
    /\ \E p \in {Normalized(fschema, projOpt)} :
           \E k \in 1..Len(p) : fschema[p[k]].data_type \in {"List", "Struct"}

\* C20: open of a readable file fails with NotImplemented whenever the
\* projection references a field of nested type (list or struct); no reader
\* is returned for such a projection
C20_NestedRejected ==
    (opened.kind # "none" /\ file_status = "ok"
        /\ ReferencesNested(file_schema, open_projection))
      => (opened.kind = "Err" /\ opened.err = "NotImplemented")

\* C21: the column that load_batch builds for a projected column has the
\* Arrow type of its field of the projected schema, so the first call of
\* next on a row group with rows returns a batch of that schema (a REQUIRED
\* INT96 column, which comes out empty, is left aside)
C21_BuiltTypeIsFieldType ==
    (/\ calls = 1
     /\ \A i \in 1..Len(projection) :
            schema[i].phys = "INT96" => schema[i].nullable)
      => /\ result.kind = "Some"
         /\ \A i \in 1..Len(projection) :
                result.columns[i].data_type = schema[i].data_type

\* C30: the first call of next on a row group with rows, for a projected
\* column that is not nullable, of any physical type, returns a batch whose
\* column holds exactly the values read (the first batch_size rows of the
\* row group, or all of them when there are fewer), none of them null, so
\* that all columns of the batch have the same length (the INT64 column
\* declared Timestamp(ns), whose built type differs from its field's, is
\* left aside)
C30_RequiredColumnRows ==
    (/\ calls = 1
     /\ \A i \in 1..Len(projection) :
            /\ ~schema[i].nullable
            /\ BuilderType(schema[i].phys, schema[i].data_type) = schema[i].data_type)
      => /\ result.kind = "Some"
         /\ \A i \in 1..Len(projection) :
                /\ Len(result.columns[i].cells) = Min(batch_size, numRows[1])
                /\ \A r \in 1..Len(result.columns[i].cells) :
                       ~result.columns[i].cells[r].null

\* the same for the physical types other than INT96
C30_RequiredColumnRowsNotInt96 ==
    (/\ calls = 1
     /\ \A i \in 1..Len(projection) :
            /\ ~schema[i].nullable
            /\ schema[i].phys # "INT96"
            /\ BuilderType(schema[i].phys, schema[i].data_type) = schema[i].data_type)
      => /\ result.kind = "Some"
         /\ \A i \in 1..Len(projection) :
                /\ Len(result.columns[i].cells) = Min(batch_size, numRows[1])
                /\ \A r \in 1..Len(result.columns[i].cells) :
                       ~result.columns[i].cells[r].null

\* (julian_day - 2440588) * 86400 * 10^9 + ((nanos_high << 32) | nanos_low),
\* computed without any limit of width
Int96Nanos(v) ==
    WideAdd(WideMul(WideMul(WideSub(Widen(v[3]), OfNat(JULIAN_DAY_OF_EPOCH)),
                            OfNat(SECONDS_PER_DAY)),
                    WideMul(OfNat(MILLIS_PER_SECOND), OfNat(NANOS_PER_MILLI))),
            WideAdd(WideShl32(Widen(v[2])), Widen(v[1])))

\* C22: for all words for which the value of the formula fits in an i64,
\* convert_int96_timestamp returns exactly that value
C22_Int96Exact ==
    (timestamp.kind # "none" /\ FitsI64(Int96Nanos(int96)))
      => (timestamp.kind = "value" /\ timestamp.v = Int96Nanos(int96))

\* number of rows of a returned batch (of its first column)
BatchRows(b) == IF b.columns = <<>> THEN 0 ELSE Len(b.columns[1].cells)

\* ceil(r / b)
CeilDiv(r, b) == (r + b - 1) \div b

\* C11: on a file with a single row group of R >= 1 rows, the first
\* ceil(R/B) calls of next return non-empty batches, the first floor(R/B) of
\* them with exactly B = batch_size rows, and the call after them returns
\* None.
C11_SingleRowGroupBatches ==
    (Len(numRows) = 1 /\ numRows[1] >= 1) =>
        /\ calls \in 1..CeilDiv(numRows[1], batch_size) =>
              /\ result.kind = "Some"
              /\ Len(delivered) = calls
              /\ \A k \in 1..Len(delivered) :
                    /\ BatchRows(delivered[k]) >= 1
                    /\ k <= numRows[1] \div batch_size =>
                          BatchRows(delivered[k]) = batch_size
        /\ calls = CeilDiv(numRows[1], batch_size) + 1 =>
              /\ result.kind = "None"
              /\ Len(delivered) = CeilDiv(numRows[1], batch_size)

\* the conversion applied to the values of column c
ConvOf(c) ==
    CASE FileSchema[c].phys = "INT32"      -> "into"
      [] FileSchema[c].phys = "INT96"      -> "int96"
      [] FileSchema[c].phys = "BYTE_ARRAY" -> "from_utf8"

\* the position of column reader i before the last read_batch call: the
\* readers advance from 0 in steps of batch_size
LastReadPos(i) == ((column_readers[i] - 1) \div batch_size) * batch_size

\* the outcome of the read_batch call of the last load_batch on projected
\* column i, definition levels requested
LastRead(i) ==
    read_batch(current_row_group, projection[i], LastReadPos(i),
               batch_size, TRUE)

\* the non-null cells of a column, in row order
NonNullCells(cells) == SelectSeq(cells, LAMBDA x : ~x.null)

\* C18: the column built for a nullable projected column from the outcome
\* of its read_batch has levels_read rows; row r is non-null iff its
\* definition level is > 0; the k-th non-null row holds the (converted)
\* k-th value of the value buffer; no more than values_read values are
\* taken; and with values_read = levels_read the column is the first
\* values_read values, none null.
C18_NullableColumn ==
    result.kind = "Some" =>
        \A i \in 1..Len(projection) :
            FileSchema[projection[i]].nullable =>
                \E rb \in {LastRead(i)} :
                \E cells \in {result.columns[i].cells} :
                    /\ Len(cells) = rb.levels_read
                    /\ \A r \in 1..Len(cells) :
                          ~cells[r].null <=> rb.def_levels[r] > 0
                    /\ Len(NonNullCells(cells)) <= rb.values_read
                    /\ \A k \in 1..Len(NonNullCells(cells)) :
                          NonNullCells(cells)[k].v =
                              Convert(ConvOf(projection[i]), rb.read_buffer[k])
                    /\ rb.values_read = rb.levels_read =>
                          cells = [k \in 1..rb.values_read |->
                                      ValueCell(Convert(ConvOf(projection[i]),
                                                        rb.read_buffer[k]))]

\* a batch with a nullable column built from two levels and one value: a
\* null, then the value
C18_Witness ==
    /\ result.kind = "Some"
    /\ \E i \in 1..Len(projection) :
          /\ FileSchema[projection[i]].nullable
          /\ LastRead(i).def_levels = <<0, 1>>
          /\ LastRead(i).values_read = 1
          /\ result.columns[i].cells[1].null
          /\ ~result.columns[i].cells[2].null

(***************************************************************************)
(* Properties of the partition wrapper.                                    *)
(***************************************************************************)

\* C5: when the worker opened the file, the Nth result of
\* ParquetScanPartition::next is the Nth result of the worker's table.next().
C5_NthReplyIsNthNext ==
    ~openFails =>
        /\ Len(callerResults) <= Len(readerResults)
        /\ \A n \in 1..Len(callerResults) : callerResults[n] = readerResults[n]

\* a batch and then the end of the stream have come through the wrapper
C5_Witness ==
    /\ ~openFails
    /\ Len(callerResults) >= 2
    /\ callerResults[1].kind = "Some"
    /\ callerResults[2].kind = "None"

\* C6: when the worker failed to open the file, the first call of
\* ParquetScanPartition::next returns the construction error.
C6_FirstPullGetsOpenError ==
    (openFails /\ Len(callerResults) >= 1) =>
        callerResults[1] = ConstructionError

\* C33: the worker never finds the reply receiver gone when it sends a
\* reply: the unwrap of response_tx.send never panics
C33_WorkerSendNeverFails ==
    wpc # "panicked"

\* the same for a worker that opened the file
C33_ServeSendNeverFails ==
    ~openFails => wpc # "panicked"

\* C34: under fair scheduling of the worker, a call of
\* ParquetScanPartition::next that has sent its pull eventually returns
C34_NextReturns ==
    (cpc = "waiting") ~> (cpc = "idle")

\* the worker failed to open the file and has exited; the first call got
\* the construction error, the second sent its pull before the worker
\* dropped request_rx and returned when the reply channel was closed
C34_Witness ==
    /\ openFails
    /\ wpc = "exited"
    /\ cpc = "idle"
    /\ callerResults = <<ConstructionError, ResErr("General: Error receiving batch")>>

\* the worker opened a file without row groups and replied to a pull with
\* the error of the reader
C34_WitnessReaderError ==
    /\ ~openFails
    /\ cpc = "idle"
    /\ callerResults = <<ResErr("General: Attempt to read past final row group")>>

\* C12: once the partition is dropped the worker thread terminates, and it
\* never calls the reader's next after the drop; a worker that opened the
\* file ends only by its recv failing on the closed, empty pull channel.
C12_DropEndsWorker ==
    /\ (cpc = "dropped") ~> (wpc = "exited")
    /\ [][cpc = "dropped" => readerResults' = readerResults]_vars
    /\ [][(~openFails /\ wpc # "exiting" /\ wpc' = "exiting") =>
              (wpc = "recv" /\ cpc = "dropped" /\ request_q = 0)]_vars
    /\ [](~openFails => wpc # "panicked")

\* the partition was dropped after a batch came through, and the worker,
\* which had opened the file, has ended
C12_Witness ==
    /\ ~openFails
    /\ cpc = "dropped"
    /\ wpc = "exited"
    /\ Len(callerResults) >= 1
    /\ callerResults[1].kind = "Some"

\* the two errors ParquetScanPartition::next makes itself
GeneralErrors ==
    {ResErr("General: Error sending request for next batch"),
     ResErr("General: Error receiving batch")}

\* C13: once a call of ParquetScanPartition::next has returned the
\* construction error, every later call returns a General error; the worker
\* never calls the reader; and a call that waits for its reply returns.
C13_AfterConstructionError ==
    /\ [](openFails =>
            /\ readerResults = <<>>
            /\ \A n \in 1..Len(callerResults) :
                  (\E k \in 1..(n - 1) : callerResults[k] = ConstructionError)
                      => callerResults[n] \in GeneralErrors)
    /\ (openFails /\ cpc = "waiting") ~> (cpc # "waiting")

\* after the construction error, a call that found the worker still alive
\* and one that found it gone
C13_Witness ==
    /\ openFails
    /\ Len(callerResults) = 3
    /\ callerResults[1] = ConstructionError
    /\ callerResults[2] = ResErr("General: Error receiving batch")
    /\ callerResults[3] = ResErr("General: Error sending request for next batch")

\* C14: the pull channel never holds more than one pull and the reply
\* channel never more than one reply, and every call of
\* ParquetScanPartition::next returns from its recv, having sent one pull,
\* with one reply taken off the reply channel.
C14_OnePullOneReply ==
    /\ [](request_q <= 1 /\ Len(response_q) <= 1)
    /\ [][Len(callerResults') > Len(callerResults) =>
              /\ cpc = "waiting"
              /\ Len(response_q') = Len(response_q) - 1]_vars

(***************************************************************************)
(* Properties of the hash-aggregate operator.                              *)
(***************************************************************************)

\* the grouping cells of row r of an output batch
OutKey(b, r) == [i \in 1..Len(group_expr) |-> b.columns[i].cells[r].v]

\* C2: when the input stream delivers no error (and the grouping column is
\* of a supported type), the items of the output stream are exactly one
\* batch and then the end of the stream, however often the input suspends.
C2_OneBatchThenEnd ==
    (upstream # "error" /\ a_type \in GroupByTypes /\ aggr_expr = <<AvgB>>
        /\ items # <<>>) =>
        /\ items[1].kind = "Some"
        /\ \A k \in 2..Len(items) : items[k].kind = "None"

C4_FinalOfPartial ==
    (stage = FinalStage /\ items # <<>>) =>
        /\ items[1].kind = "Some"
        /\ num_rows(items[1]) = Cardinality(DOMAIN ref)
        /\ \A k \in DOMAIN ref :
             \E r \in 1..num_rows(items[1]) :
                /\ OutKey(items[1], r) = k
                /\ items[1].columns[Len(group_expr) + 1].cells[r] = RefAvg(k)

\* a group whose rows come from both partitions, and a second group
C4_Witness ==
    /\ stage = FinalStage
    /\ items # <<>>
    /\ items[1].kind = "Some"
    /\ Cardinality(DOMAIN ref) = 2
    /\ \E k \in DOMAIN ref : ref[k].count > MaxInputBatches * MaxAggRows

\* the output batch of the Partial stage of partition 1 is complete and no
\* row of partition 2 has been read: ref holds the rows of partition 1
FirstPartialDone == stage = 2 /\ nInput = 0 /\ Len(merged) = 1

\* the state cells (count, sum) of row r of a Partial output batch
PartialState(b, r) ==
    <<b.columns[Len(group_expr) + 1].cells[r],
      b.columns[Len(group_expr) + 2].cells[r]>>

\* C15 as stated: the Partial output has one row per group key, whose state
\* is (number of rows of the group, sum of their values).
C15_PartialStateCountsRows ==
    FirstPartialDone =>
        /\ merged[1].kind = "Some"
        /\ num_rows(merged[1]) = Cardinality(DOMAIN ref)
        /\ \A k \in DOMAIN ref :
             \E r \in 1..num_rows(merged[1]) :
                /\ OutKey(merged[1], r) = k
                /\ PartialState(merged[1], r)[1] = ValueCell(ref[k].rows)
                /\ ref[k].count > 0 =>
                      PartialState(merged[1], r)[2] = ValueCell(ref[k].sum)

\* C15, amended: the Partial output has one row per group key, whose state
\* is that of an accumulator folded over exactly the rows of the key, each
\* once, however the rows are split into batches: for AVG the number of
\* non-null values of the group and their sum (null when there is none).
C15_PartialStatePerGroup ==
    FirstPartialDone =>
        /\ merged[1].kind = "Some"
        /\ num_rows(merged[1]) = Cardinality(DOMAIN ref)
        /\ \A k \in DOMAIN ref :
             \E r \in 1..num_rows(merged[1]) :
                /\ OutKey(merged[1], r) = k
                /\ PartialState(merged[1], r)[1] = ValueCell(ref[k].count)
                /\ PartialState(merged[1], r)[2] =
                      IF ref[k].count = 0 THEN NullSlot(0)
                      ELSE ValueCell(ref[k].sum)

\* two groups, one of them with rows in both batches of the partition, one
\* of its values null
C15_Witness ==
    /\ FirstPartialDone
    /\ group_expr # <<>>
    /\ Cardinality(DOMAIN ref) = 2
    /\ \E k \in DOMAIN ref :
          /\ ref[k].rows > MaxAggRows
          /\ ref[k].count < ref[k].rows
          /\ ref[k].count > 1

\* the call `call` of the aggregate or of one of its accumulators is made
\* by a stream that folds its whole input and builds its batch
CallMade(call) ==
    LET some == group_expr = <<>> \/ seenKeys # {}
        fed  == IF group_expr = <<>> THEN nInput > 0 ELSE seenKeys # {}
    IN  CASE call = "evaluate_expression" -> mode = "Partial" /\ nInput > 0
          [] call = "create_accumulator" -> some
          [] call = "state_fields"       -> mode = "Final"
          [] call = "update_batch"       -> mode = "Partial" /\ fed
          [] call = "merge_batch"        -> mode = "Final" /\ fed
          [] call = "state"              -> mode = "Partial" /\ some
          [] call = "evaluate"           -> mode = "Final" /\ some
          [] OTHER                       -> FALSE

\* C16: an error is the first and only item of the stream, followed by the
\* end of the stream only; the error of the upstream is the item; and no
\* batch is emitted by a stream whose upstream yielded an error or one of
\* whose aggregate or accumulator calls failed.
C16_ErrorIsOnlyItem ==
    /\ \A k \in 1..Len(items) : items[k].kind = "Err" => k = 1
    /\ (items # <<>> /\ items[1].kind = "Err") =>
          \A k \in 2..Len(items) : items[k].kind = "None"
    /\ upstream = "error" => (items # <<>> /\ items[1] = ResErr("upstream"))
    /\ (\E k \in 1..Len(items) : items[k].kind = "Some") =>
          /\ upstream # "error"
          /\ \A j \in 1..Len(aggr_expr) :
                /\ ~CallMade(aggr_expr[j].fails)
                /\ aggr_expr[j].arg = <<"c">> => ~CallMade("evaluate_expression")

\* the second input batch made update_batch fail; the stream was polled
\* again after the error
C16_Witness ==
    /\ stage = 0
    /\ group_expr # <<>>
    /\ aggr_expr[1].fails = "update_batch"
    /\ nInput = 2
    /\ Len(items) = 2
    /\ items[1].kind = "Err"
    /\ items[2].kind = "None"

\* C17: once the upstream has returned the end of the stream or an error,
\* the aggregate stream is never again inside a fold, where it polls the
\* upstream; its later polls return without one.
C17_NoPollAfterEnd ==
    upstream \in {"ended", "error"} => apc = "idle"

\* the stream was polled twice more after its upstream had ended
C17_Witness ==
    /\ stage = 0
    /\ upstream = "ended"
    /\ Len(items) = 3
    /\ items[1].kind = "Some"
    /\ items[3].kind = "None"

\* the number of state fields of the aggregates before aggregate j
RECURSIVE StateOffset(_)
StateOffset(j) ==
    IF j = 1 THEN 0
    ELSE StateOffset(j - 1) + Len(state_fields(aggr_expr[j - 1]))

\* the batch has the layout of an output of mode m: as many columns as
\* fields; the grouping columns first, in declared order; then, in
\* aggregate order, the state fields of every aggregate (Partial) or its one
\* value field (Final); every column of the type of its field
HasLayout(b, m) ==
    /\ b.kind = "Some"
    /\ Len(b.columns) = Len(b.schema)
    /\ \A c \in 1..Len(b.columns) : b.columns[c].data_type = b.schema[c].data_type
    /\ \A i \in 1..Len(group_expr) :
          /\ b.schema[i].name = group_expr[i].name
          /\ b.schema[i].data_type = a_type
    /\ IF m = "Partial"
       THEN /\ Len(b.schema) = Len(group_expr) + StateOffset(Len(aggr_expr) + 1)
            /\ \A j \in 1..Len(aggr_expr) :
                  \A k \in 1..Len(state_fields(aggr_expr[j])) :
                      b.schema[Len(group_expr) + StateOffset(j) + k]
                          = state_fields(aggr_expr[j])[k]
       ELSE /\ Len(b.schema) = Len(group_expr) + Len(aggr_expr)
            /\ \A j \in 1..Len(aggr_expr) :
                  b.schema[Len(group_expr) + j] = field(aggr_expr[j])

\* C23: every batch a Partial stage has emitted has the Partial layout, and
\* the batch the Final stage emits has the Final layout; no stage fails to
\* build its batch
C23_OutputLayout ==
    /\ \A i \in 1..Len(merged) : HasLayout(merged[i], "Partial")
    /\ \A i \in 1..Len(items) :
          items[i].kind # "None" => HasLayout(items[i], "Final")

\* the Final stage has emitted its batch, of two groups, after the Partial
\* stage emitted a batch of two groups
C23_Witness ==
    /\ stage = FinalStage
    /\ group_expr # <<>>
    /\ Len(items) = 1
    /\ items[1].kind = "Some"
    /\ Len(items[1].columns) = Len(group_expr) + Len(aggr_expr)
    /\ Cardinality(seenKeys) = MaxKey + 1
    /\ num_rows(items[1]) = Cardinality(seenKeys)

\* the columns of a Partial output batch that hold the state of aggregate j:
\* those at the positions after the grouping columns and after the state
\* fields of the aggregates before j
PositionalStates(batch) ==
    [j \in 1..Len(aggr_expr) |->
        [k \in 1..Len(state_fields(aggr_expr[j])) |->
            batch.columns[Len(group_expr) + StateOffset(j) + k]]]

\* the fold state after a batch of which every aggregate merges its own
\* state columns: the entries of the map, the map or the accumulator set
MergedEntries(accs, batch) ==
    [x \in DOMAIN accs |-> UpdateEntry("Final", accs[x], PositionalStates(batch))]

MergedPositionally(batch) ==
    IF group_expr = <<>>
    THEN [j \in 1..Len(accumulators) |->
             merge_batch(accumulators[j], PositionalStates(batch)[j])]
    ELSE MergedEntries(RowLoop(evaluate(StreamGroupExpr, batch).arrays, aggr_expr,
                               1, num_rows(batch), accumulators).accs,
                       batch)

\* C28: when the Final stage folds a Partial output batch, merge_batch of
\* aggregate j is given the columns that the state of aggregate j was
\* written to, also when two fields of the batch carry the same name
C28_MergeOwnState ==
    [][(stage = FinalStage /\ apc = "folding" /\ merged # <<>>
            /\ merged' = Tail(merged))
        => accumulators' = MergedPositionally(Head(merged))]_vars

\* the same, for aggregates of pairwise distinct names
C28_MergeOwnStateDistinctNames ==
    [][(stage = FinalStage /\ apc = "folding" /\ merged # <<>>
            /\ merged' = Tail(merged)
            /\ \A i, j \in 1..Len(aggr_expr) :
                  aggr_expr[i].name = aggr_expr[j].name => i = j)
        => accumulators' = MergedPositionally(Head(merged))]_vars

\* the items returned up to the first None, when no item is an error
Completed == \E i \in 1..Len(items) : items[i].kind = "None"

NoErrorItem == \A i \in 1..Len(items) : items[i].kind # "Err"

\* the stream has returned exactly one batch, of one row and of the output
\* schema, and then None at every later poll
OneRowThenNone ==
    /\ items[1].kind = "Some"
    /\ num_rows(items[1]) = 1
    /\ items[1].schema = OutputSchema
    /\ \A i \in 2..Len(items) : items[i].kind = "None"

\* C24: with no grouping expressions, an execution that has completed
\* without error has emitted exactly one batch, of exactly one row, for
\* every input stream
C24_UngroupedOneRow ==
    (group_expr = <<>> /\ Completed /\ NoErrorItem) => OneRowThenNone

\* the same, for an input stream that never returned Poll::Pending
C24_UngroupedOneRowReady ==
    (group_expr = <<>> /\ Completed /\ NoErrorItem /\ pendings = 0)
        => OneRowThenNone

\* C25: when the grouping column has a type that create_key does not
\* support, a grouped stream that has been given a batch with a row has
\* returned an error as its only item and no batch, and its group map was
\* dropped without an entry
C25_UnsupportedKeyFails ==
    (group_expr # <<>> /\ a_type \notin GroupByTypes /\ seenKeys # {})
      => /\ Len(items) >= 1
         /\ items[1].kind = "Err"
         /\ \A i \in 2..Len(items) : items[i].kind = "None"
         /\ apc = "idle"
         /\ accumulators = <<>>

\* a grouped stream over a Float64 grouping column has been given a batch of
\* MaxAggRows rows by an aggregate without faults, and has returned an error
C25_Witness ==
    /\ group_expr # <<>>
    /\ a_type = "Float64"
    /\ aggr_expr = <<AvgB>>
    /\ mode = "Partial"
    /\ nInput = 1
    /\ Cardinality(seenKeys) = MaxKey + 1
    /\ items = <<ResErr("Internal")>>

\* C26: required_child_distribution returns UnspecifiedDistribution in
\* Partial mode and SinglePartition in Final mode; no step changes the mode
\* of the operator, and the operator that with_new_children returns has the
\* mode of the one it was called on
C26_ModeAndDistribution ==
    /\ [](distribution # "none" =>
            distribution = (IF mode = "Partial" THEN "UnspecifiedDistribution"
                            ELSE "SinglePartition"))
    /\ [][mode' = mode /\ (new_plan'.kind = "Ok" => new_plan'.mode = mode)]_vars

\* with_new_children has returned a Final operator over a child whose
\* grouping column has another type than that of the first child, and
\* required_child_distribution has returned SinglePartition
C26_Witness ==
    /\ new_plan.kind = "Ok"
    /\ mode = "Final"
    /\ group_expr # <<>>
    /\ new_plan.input = TableSchema("Float64")
    /\ distribution = "SinglePartition"

\* the key of a row of the grouping columns g
RowKey(g, row) ==
    [i \in 1..Len(g) |-> [tag |-> g[i].data_type, v |-> g[i].cells[row].v]]

\* the index buffers of the map accs hold every row 1..n of the grouping
\* columns g exactly once, in the entry of the row's key, in ascending order
IndicesPartitionRows(accs, g, n) ==
    /\ \A row \in 1..n :
          /\ RowKey(g, row) \in DOMAIN accs
          /\ \E k \in 1..Len(accs[RowKey(g, row)].indices) :
                 accs[RowKey(g, row)].indices[k] = row
    /\ \A x \in DOMAIN accs :
          /\ \A k \in 1..Len(accs[x].indices) :
                 /\ accs[x].indices[k] \in 1..n
                 /\ RowKey(g, accs[x].indices[k]) = x
          /\ \A k \in 1..(Len(accs[x].indices) - 1) :
                 accs[x].indices[k] < accs[x].indices[k + 1]

\* the row loop of group_aggregate_batch, run on the batch from the fold
\* state of the stream, ends with such index buffers
RowLoopPartitionsRows(batch) ==
    \E g \in {evaluate(StreamGroupExpr, batch).arrays} :
        \E l \in {RowLoop(g, aggr_expr, 1, num_rows(batch), accumulators)} :
            l.ok /\ IndicesPartitionRows(l.accs, g, num_rows(batch))

\* C27: at every batch boundary of a grouped stream every index buffer of
\* the group map is empty; and the row loop over any batch the stream may be
\* given next (a batch of the table in a Partial stage, the next Partial
\* output in the Final stage) leaves every row index of the batch exactly
\* once in the buffers, in the entry of its key and in ascending order
C27_IndexBuffers ==
    group_expr # <<>> =>
        /\ \A x \in DOMAIN accumulators : accumulators[x].indices = <<>>
        /\ (apc = "folding" /\ stage \in 1..NumPartitions) =>
               \A batch \in TableBatches : RowLoopPartitionsRows(batch)
        /\ (apc = "folding" /\ stage = FinalStage /\ merged # <<>>) =>
               RowLoopPartitionsRows(Head(merged))

\* a grouped Partial stage holds a map of all keys after its first batch and
\* is about to be given its next batch
C27_Witness ==
    /\ group_expr # <<>>
    /\ stage = NumPartitions
    /\ apc = "folding"
    /\ nInput = 1
    /\ Cardinality(DOMAIN accumulators) = MaxKey + 1
    /\ \A x \in DOMAIN accumulators : accumulators[x].indices = <<>>

\* the calls made on the accumulators in mode m: the fold call and the
\* finalization call
FoldCall(m) == IF m = "Partial" THEN "update_batch" ELSE "merge_batch"

FinalizeCall(m) == IF m = "Partial" THEN "state" ELSE "evaluate"

OtherMode(m) == IF m = "Partial" THEN "Final" ELSE "Partial"

\* an item of the stream is an error of one of its own calls
CallFailed == \E k \in 1..Len(items) : items[k].kind = "Err" /\ items[k] # ResErr("upstream")

\* C29: a stream whose aggregate fails in a call of the other mode (in
\* Partial: merge_batch, evaluate; in Final: update_batch, state) never
\* returns an error of its own, grouped or not: the call is never made.
\* The fold call of its mode is made with every batch that feeds an
\* accumulator, and the finalization call of its mode is made when, and
\* only when, the input has ended: after the last fold call.
C29_OnlyModeCalls ==
    (stage = 0 /\ (group_expr = <<>> \/ a_type \in GroupByTypes)) =>
        \A j \in 1..Len(aggr_expr) :
            aggr_expr[j].arg = <<"b">> =>
                /\ aggr_expr[j].fails \in {FoldCall(OtherMode(mode)),
                                           FinalizeCall(OtherMode(mode))}
                      => ~CallFailed
                /\ aggr_expr[j].fails = FoldCall(mode) =>
                      (CallFailed <=>
                          IF group_expr = <<>> THEN nInput > 0
                          ELSE seenKeys # {})
                /\ aggr_expr[j].fails = FinalizeCall(mode) =>
                      /\ CallFailed <=>
                            /\ upstream = "ended"
                            /\ group_expr = <<>> \/ seenKeys # {}
                      /\ CallFailed => items[1] = ResErr("External")

\* a grouped Partial stream folded two batches, its input ended, and the
\* state() of its accumulators failed
C29_Witness ==
    /\ stage = 0
    /\ mode = "Partial"
    /\ group_expr # <<>>
    /\ aggr_expr[1].fails = "state"
    /\ nInput = 2
    /\ upstream = "ended"
    /\ items = <<ResErr("External")>>

\* an ungrouped Final stream whose aggregate fails in update_batch and in
\* no other call folded two batches and returned its batch
C29_WitnessOtherMode ==
    /\ stage = 0
    /\ mode = "Final"
    /\ group_expr = <<>>
    /\ aggr_expr[1].fails = "update_batch"
    /\ nInput = 2
    /\ Len(items) = 1
    /\ items[1].kind = "Some"

\* two cells are equal: both null, or both values and the same value
SameCell(c1, c2) ==
    \/ c1.null /\ c2.null
    \/ ~c1.null /\ ~c2.null /\ c1.v = c2.v

\* the rows r1 and r2 are in the index buffer of one entry of the map
SameEntry(accs, r1, r2) ==
    \E x \in DOMAIN accs :
        /\ \E k \in 1..Len(accs[x].indices) : accs[x].indices[k] = r1
        /\ \E k \in 1..Len(accs[x].indices) : accs[x].indices[k] = r2

\* after the row loop over the grouping columns g, two rows share an entry
\* iff their grouping cells are pairwise equal
GroupsByCells(accs, g, n) ==
    \A r1, r2 \in 1..n :
        SameEntry(accs, r1, r2) <=>
            \A i \in 1..Len(g) : SameCell(g[i].cells[r1], g[i].cells[r2])

RowLoopGroupsByCells(batch) ==
    \E g \in {evaluate(StreamGroupExpr, batch).arrays} :
        \E l \in {RowLoop(g, aggr_expr, 1, num_rows(batch), accumulators)} :
            l.ok /\ GroupsByCells(l.accs, g, num_rows(batch))

\* a grouped Partial stream over a supported key type that is inside its
\* fold and whose aggregate creates its accumulators
GroupedFold ==
    /\ stage = 0
    /\ mode = "Partial"
    /\ group_expr # <<>>
    /\ a_type \in GroupByTypes
    /\ apc = "folding"
    /\ ~ExprFails(aggr_expr, "create_accumulator")

\* C31: the row loop over any batch the stream may be given puts two rows
\* in the same entry of the group map iff their grouping cells are equal;
\* a row with a null grouping cell never shares the entry of a row with a
\* value, whatever the value slot of the null cell holds
C31_SameEntryIffEqualCells ==
    GroupedFold => \A batch \in InputBatches : RowLoopGroupsByCells(batch)

\* the same for the batches without a null grouping cell
C31_SameEntryIffEqualValues ==
    GroupedFold =>
        \A batch \in InputBatches :
            (\A r \in 1..num_rows(batch) :
                \A i \in 1..Len(evaluate(StreamGroupExpr, batch).arrays) :
                    ~evaluate(StreamGroupExpr, batch).arrays[i].cells[r].null)
              => RowLoopGroupsByCells(batch)

\* every entry of the group map holds one accumulator per aggregate
\* expression, in the order of the aggregates
OneAccumulatorPerAggregate ==
    (group_expr # <<>> /\ apc = "folding") =>
        \A x \in DOMAIN accumulators :
            /\ Len(accumulators[x].accumulator_set) = Len(aggr_expr)
            /\ \A j \in 1..Len(aggr_expr) :
                   accumulators[x].accumulator_set[j].fails = aggr_expr[j].fails

\* a step inside the fold of one grouped execution
FoldStep ==
    /\ group_expr # <<>>
    /\ apc = "folding"
    /\ apc' = "folding"
    /\ stage' = stage

\* C35: during one grouped execution every key of the group map stays in
\* the map and keeps its accumulators, which are never replaced by fresh
\* ones (what they have counted never shrinks); every entry holds exactly
\* one accumulator per aggregate expression, in aggregate order
C35_MapOnlyGrows ==
    /\ []OneAccumulatorPerAggregate
    /\ [][FoldStep =>
             \A x \in DOMAIN accumulators :
                 /\ x \in DOMAIN accumulators'
                 /\ \A j \in 1..Len(aggr_expr) :
                        accumulators'[x].accumulator_set[j].count >=
                            accumulators[x].accumulator_set[j].count]_vars

\* a grouped Partial stage with two aggregates is inside its fold after two
\* batches; one key has more values counted than one batch has rows
C35_Witness ==
    /\ group_expr # <<>>
    /\ stage = NumPartitions
    /\ apc = "folding"
    /\ nInput = 2
    /\ Len(aggr_expr) = 2
    /\ Cardinality(DOMAIN accumulators) = 2
    /\ \E x \in DOMAIN accumulators :
           accumulators[x].accumulator_set[1].count > MaxAggRows

====
